---------------------------- MODULE Spec2Model ----------------------------
(***************************************************************************)
(* A model of the FIT container decoder of fit-parser:                     *)
(*   - the CRC engine            (parser/src/fit_header.rs, fit_crc)       *)
(*   - the file-header decoder   (parser/src/fit_header.rs,                *)
(*                                FitFileHeader::from)                     *)
(*   - the record-header classifier (parser/src/fit_records.rs,            *)
(*                                parse_record_header)                     *)
(* Offsets are 0-based as in the source; TLA+ sequences are 1-based, so    *)
(* At and Slice do the shift.  Option<T> is a sequence of length 0 (None)  *)
(* or 1 (Some).                                                            *)
(***************************************************************************)
EXTENDS Integers, Sequences, FiniteSets, TLC

VARIABLES
    crcA,        \* CRC engine: the prefix byte sequence A
    crcB,        \* CRC engine: the suffix byte sequence B
    crcWhole,    \* Option: fit_crc(A || B, 0)
    crcPrefix,   \* Option: fit_crc(A, 0)
    crcChained,  \* Option: fit_crc(B, fit_crc(A, 0))
    fit_data,    \* header decoder: the input buffer
    hdrPc,       \* header decoder: "start" | "done"
    hdrOut,      \* header decoder: the outcome of FitFileHeader::from
    recByte,     \* record-header classifier: the input byte
    recHeader,   \* Option: the RecordHeader parse_record_header returned
    recType,     \* Option: what get_record_message_type returned
    btNumber,    \* base types: the code handed to get_base_type_info
    btOut,       \* Option: the outcome of get_base_type_info
    defData,     \* definition decoder: the buffer
    defHeader,   \* definition decoder: the NormalDefinitionHeader
    defStart,    \* definition decoder: data_start_offset
    defOut,      \* Option: the outcome of parse_definition_record
    fit_content, \* main: the bytes of the input file
    mainPc,      \* main: "start" | "header_parsed" | "done" | "panicked"
    mainHeader,  \* Option: the header main parsed
    mainCrc,     \* Option: <<CRC in file, calculated CRC>> as main printed them
    typeRows,    \* profile: the records of the type catalog
    msgRows,     \* profile: the records of the message catalog
    ldPc,        \* profile: where the caller of the loaders stands
    ldRun,       \* profile: 1 during the first load, 2 during the second
    ldIdx,       \* profile: the number of records the running loop has consumed
    tyLocals,    \* read_profile_types: fit_types, curr_fit_type, first_type
    msLocals,    \* read_messages: fit_messages, first_message, curr_message, curr_category
    tyOut,       \* what read_profile_types returned, one entry per load
    msOut,       \* what read_messages returned, one entry per load
    emitted,     \* the artifact: what the emitters returned, one entry per type
    arrIn,       \* parse_fit_message_array: the cell
    arrOut,      \* Option: the outcome of parse_fit_message_array
    resA,        \* CRC residue: the byte sequence A
    resOut,      \* Option: fit_crc(A, 0) and fit_crc of A with it appended
    eqCall,      \* copies: the function called and its arguments
    eqOut        \* Option: the results of the module version and of the copy

crcVars == <<crcA, crcB, crcWhole, crcPrefix, crcChained>>
hdrVars == <<fit_data, hdrPc, hdrOut>>
recVars == <<recByte, recHeader, recType>>
btVars == <<btNumber, btOut>>
defVars == <<defData, defHeader, defStart, defOut>>
mainVars == <<fit_content, mainPc, mainHeader, mainCrc>>
ldVars == <<typeRows, msgRows, ldPc, ldRun, ldIdx, tyLocals, msLocals, tyOut, msOut, emitted>>
arrVars == <<arrIn, arrOut>>
resVars == <<resA, resOut>>
eqVars == <<eqCall, eqOut>>
vars == <<crcVars, hdrVars, recVars, btVars, defVars, mainVars, ldVars, arrVars, resVars, eqVars>>

None == <<>>
Some(x) == <<x>>

-----------------------------------------------------------------------------
(* Bounds of the model *)

\* longest byte sequence fed to the CRC engine (each of A and B)
MaxCrcLen == 3
\* longest input buffer handed to the header decoder
MaxBufLen == 16

-----------------------------------------------------------------------------
(* Rust's integer operators on unsigned values *)

RECURSIVE BitAnd(_, _)
BitAnd(a, b) ==
    IF a = 0 \/ b = 0 THEN 0
    ELSE (a % 2) * (b % 2) + 2 * BitAnd(a \div 2, b \div 2)

RECURSIVE BitXor(_, _)
BitXor(a, b) ==
    IF a = 0 THEN b
    ELSE IF b = 0 THEN a
    ELSE (((a % 2) + (b % 2)) % 2) + 2 * BitXor(a \div 2, b \div 2)

Shr(a, n) == a \div (2 ^ n)

\* data[i] and &data[lo..=hi] with the source's 0-based offsets
At(data, i) == data[i + 1]
Slice(data, lo, hi) == SubSeq(data, lo + 1, hi + 1)

-----------------------------------------------------------------------------
(* 4.A  CRC engine *)

\* the values of a u16; the running checksum is one
U16 == 0..65535

CRC_TABLE ==
    << 0, 52225, 55297, 5120, 61441, 15360, 10240, 58369,
       40961, 27648, 30720, 46081, 20480, 39937, 34817, 17408 >>

\* a plausible slip: the low nibble of the byte fed in both halves
CrcByte_low_nibble_twice(crc0, byte) ==
    LET tmp1 == CRC_TABLE[BitAnd(crc0, 15) + 1]
        crc1 == BitAnd(Shr(crc0, 4), 4095)
        crc2 == BitXor(BitXor(crc1, tmp1), CRC_TABLE[BitAnd(byte, 15) + 1])
        tmp2 == CRC_TABLE[BitAnd(crc2, 15) + 1]
        crc3 == BitAnd(Shr(crc2, 4), 4095)
    IN  BitXor(BitXor(crc3, tmp2), CRC_TABLE[BitAnd(byte, 15) + 1])

\* one iteration of the loop of fit_crc: the low nibble, then the high nibble
CrcByte(crc0, byte) ==
    LET tmp1 == CRC_TABLE[BitAnd(crc0, 15) + 1]
        crc1 == BitAnd(Shr(crc0, 4), 4095)
        crc2 == BitXor(BitXor(crc1, tmp1), CRC_TABLE[BitAnd(byte, 15) + 1])
        tmp2 == CRC_TABLE[BitAnd(crc2, 15) + 1]
        crc3 == BitAnd(Shr(crc2, 4), 4095)
    IN  BitXor(BitXor(crc3, tmp2), CRC_TABLE[BitAnd(Shr(byte, 4), 15) + 1])

\* a plausible slip: the running value restarts from 0 instead of crc_in
fit_crc_seed_dropped(data, crc_in) ==
    LET crc[i \in 0..Len(data)] ==
            IF i = 0 THEN 0
            ELSE LET prev == crc[i - 1]
                 IN  CASE prev \in U16 -> CrcByte(prev, data[i])
    IN  crc[Len(data)]

fit_crc(data, crc_in) ==
    LET crc[i \in 0..Len(data)] ==
            IF i = 0 THEN crc_in
            ELSE LET prev == crc[i - 1]
                 IN  CASE prev \in U16 -> CrcByte(prev, data[i])
    IN  crc[Len(data)]

fit_crc_vec(data, crc_in) ==
    LET crc[i \in 0..Len(data)] ==
            IF i = 0 THEN crc_in
            ELSE LET prev == crc[i - 1]
                 IN  CASE prev \in U16 -> CrcByte(prev, data[i])
    IN  crc[Len(data)]


-----------------------------------------------------------------------------
(* 4.D  File-header decoder *)

\* struct FitFileHeaderOffsets
HEADER_SIZE == 0
PROTOCOL_VERSION == 1
PROFILE_VERSION_LSB == 2
PROFILE_VERSION_MSB == 3
DATA_SIZE_LSB == 4
DATA_SIZE_MSB == 7
DATA_TYPE_START == 8
DATA_TYPE_END == 11
CRC_LSB == 12
CRC_MSB == 13

\* a plausible slip: the two bytes taken most significant first
read_u16_be(s) == 256 * s[1] + s[2]

\* LittleEndian::read_u16
LittleEndian_read_u16(s) == s[1] + 256 * s[2]

\* LittleEndian::read_u32
LittleEndian_read_u32(s) ==
    s[1] + 256 * s[2] + 65536 * s[3] + 16777216 * s[4]

\* String::from_utf8(..).is_ok(): the bytes are well-formed UTF-8
\* (the String that unwrap() yields holds the same bytes)
RECURSIVE from_utf8_is_ok(_)
from_utf8_is_ok(s) ==
    LET n == Len(s)
        Cont(i) == i <= n /\ s[i] >= 128 /\ s[i] <= 191
        Rest(k) == from_utf8_is_ok(SubSeq(s, k + 1, n))
    IN  IF n = 0 THEN TRUE
        ELSE IF s[1] <= 127 THEN Rest(1)
        ELSE IF s[1] >= 194 /\ s[1] <= 223 THEN Cont(2) /\ Rest(2)
        ELSE IF s[1] = 224
            THEN n >= 2 /\ s[2] >= 160 /\ s[2] <= 191 /\ Cont(3) /\ Rest(3)
        ELSE IF s[1] = 237
            THEN n >= 2 /\ s[2] >= 128 /\ s[2] <= 159 /\ Cont(3) /\ Rest(3)
        ELSE IF s[1] >= 225 /\ s[1] <= 239 THEN Cont(2) /\ Cont(3) /\ Rest(3)
        ELSE IF s[1] = 240
            THEN n >= 2 /\ s[2] >= 144 /\ s[2] <= 191
                 /\ Cont(3) /\ Cont(4) /\ Rest(4)
        ELSE IF s[1] >= 241 /\ s[1] <= 243
            THEN Cont(2) /\ Cont(3) /\ Cont(4) /\ Rest(4)
        ELSE IF s[1] = 244
            THEN n >= 2 /\ s[2] >= 128 /\ s[2] <= 143
                 /\ Cont(3) /\ Cont(4) /\ Rest(4)
        ELSE FALSE

\* a plausible slip: the size assertion left out
HeaderSizeUnchecked(header_size, len) == TRUE

\* assert!(header_size as usize <= fit_data.len())
HeaderSizeWithinData(header_size, len) == header_size <= len

\* the condition under which the header's CRC is read and checked
HeaderHasCrc(header_size) == header_size > CRC_LSB /\ header_size >= CRC_MSB

\* a plausible slip: the comparison of the two checksums left out
CrcUnchecked(crc_in_data, calculated_crc) == TRUE

\* assert_eq!(crc_in_data, calculated_crc, "crc mismatch")
CrcMatches(crc_in_data, calculated_crc) == crc_in_data = calculated_crc

\* A panic: no header is returned.  reads is the set of offsets of the
\* buffer that were read before the panic.
Panic(why, reads) ==
    [outcome |-> "panic", panic |-> why, header |-> None, reads |-> reads]

Returned(header, reads) ==
    [outcome |-> "ok", panic |-> "", header |-> Some(header), reads |-> reads]

\* FitFileHeader::from.  An index or a range beyond the end of the slice
\* panics, as does a failed assertion and unwrap() of an Err.
FitFileHeader_from(data) ==
    LET len == Len(data)
        header_size == At(data, HEADER_SIZE)
        protocol_version == At(data, PROTOCOL_VERSION)
        profile_version ==
            LittleEndian_read_u16(Slice(data, PROFILE_VERSION_LSB, PROFILE_VERSION_MSB))
        data_size ==
            LittleEndian_read_u32(Slice(data, DATA_SIZE_LSB, DATA_SIZE_MSB))
        data_type == Slice(data, DATA_TYPE_START, DATA_TYPE_END)
        crc_in_data == LittleEndian_read_u16(Slice(data, CRC_LSB, CRC_MSB))
        calculated_crc == fit_crc_vec(Slice(data, 0, CRC_LSB - 1), 0)
        header(crc) ==
            [header_size |-> header_size,
             protocol_version |-> protocol_version,
             profile_version |-> profile_version,
             data_size |-> data_size,
             data_type |-> data_type,
             crc |-> crc]
    IN  IF len <= HEADER_SIZE
            THEN Panic("index out of bounds", {})
        ELSE IF ~HeaderSizeWithinData(header_size, len)
            THEN Panic("assertion failed", 0..HEADER_SIZE)
        ELSE IF len <= PROTOCOL_VERSION
            THEN Panic("index out of bounds", 0..HEADER_SIZE)
        ELSE IF len <= PROFILE_VERSION_MSB
            THEN Panic("range end out of bounds", 0..PROTOCOL_VERSION)
        ELSE IF len <= DATA_SIZE_MSB
            THEN Panic("range end out of bounds", 0..PROFILE_VERSION_MSB)
        ELSE IF len <= DATA_TYPE_END
            THEN Panic("range end out of bounds", 0..DATA_SIZE_MSB)
        ELSE IF ~from_utf8_is_ok(data_type)
            THEN Panic("unwrap on Err", 0..DATA_TYPE_END)
        ELSE IF ~HeaderHasCrc(header_size)
            THEN Returned(header(None), 0..DATA_TYPE_END)
        ELSE IF len <= CRC_MSB
            THEN Panic("range end out of bounds", 0..DATA_TYPE_END)
        ELSE IF ~CrcMatches(crc_in_data, calculated_crc)
            THEN Panic("crc mismatch", 0..CRC_MSB)
        ELSE Returned(header(Some(crc_in_data)), 0..CRC_MSB)

\* parse_fit_header_from_data
parse_fit_header_from_data(data) == FitFileHeader_from(data)

-----------------------------------------------------------------------------
(* 4.E  Record-header classifier *)

\* enum RecordHeader: one record per variant, tagged by variant
CompressedTimestamp(local_message_type, time_offset) ==
    [variant |-> "CompressedTimestamp",
     local_message_type |-> local_message_type,
     time_offset |-> time_offset]

NormalDefinition(contains_extended_definitions, local_message_type) ==
    [variant |-> "NormalDefinition",
     contains_extended_definitions |-> contains_extended_definitions,
     local_message_type |-> local_message_type]

NormalData(local_message_type) ==
    [variant |-> "NormalData", local_message_type |-> local_message_type]

\* a plausible slip: the definition bit tested before the compressed-timestamp
\* bit
parse_record_header_bit6_first(b) ==
    IF BitAnd(b, 64) > 0
        THEN NormalDefinition(BitAnd(b, 32) > 0, BitAnd(b, 15))
    ELSE IF BitAnd(b, 128) > 0
        THEN CompressedTimestamp(BitAnd(b, 96), BitAnd(b, 31))
    ELSE NormalData(BitAnd(b, 15))

\* a plausible slip: the developer-data flag taken from bit 4
parse_record_header_flag_bit4(b) ==
    IF BitAnd(b, 128) > 0
        THEN CompressedTimestamp(BitAnd(b, 96), BitAnd(b, 31))
    ELSE IF BitAnd(b, 64) > 0
        THEN NormalDefinition(BitAnd(b, 16) > 0, BitAnd(b, 15))
    ELSE NormalData(BitAnd(b, 15))

parse_record_header(b) ==
    IF BitAnd(b, 128) > 0
        THEN CompressedTimestamp(BitAnd(b, 96), BitAnd(b, 31))
    ELSE IF BitAnd(b, 64) > 0
        THEN NormalDefinition(BitAnd(b, 32) > 0, BitAnd(b, 15))
    ELSE NormalData(BitAnd(b, 15))

\* RecordHeader::get_record_message_type
get_record_message_type(header) ==
    CASE header.variant = "NormalDefinition"    -> "Definition"
      [] header.variant = "NormalData"          -> "Data"
      [] header.variant = "CompressedTimestamp" -> "DataCompressedTimestamp"

-----------------------------------------------------------------------------
(* Base types *)

\* a u64, as four 16-bit limbs, most significant first
U64(w3, w2, w1, w0) == <<w3, w2, w1, w0>>

\* enum BaseType with its #[repr(u8)] discriminants
BaseTypeDiscriminants ==
    { <<"Enum", 0>>,
      <<"Sint8", 1>>,
      <<"Uint8", 2>>,
      <<"Sint16", 131>>,
      <<"Uint16", 132>>,
      <<"Sint32", 133>>,
      <<"Uint32", 134>>,
      <<"String", 7>>,
      <<"Float32", 136>>,
      <<"Float64", 137>>,
      <<"Uint8z", 10>>,
      <<"Uint16z", 139>>,
      <<"Uint32z", 140>>,
      <<"Byte", 13>>,
      <<"Sint64", 142>>,
      <<"Uint64", 143>>,
      <<"Uint64z", 144>> }

\* a plausible slip: the endian bit (0x80) of the code ignored in the lookup
BaseType_try_from_low_bits(number) ==
    LET hit == {d \in BaseTypeDiscriminants : d[2] % 128 = number % 128}
    IN  IF hit = {} THEN None ELSE Some((CHOOSE d \in hit : TRUE)[1])

\* BaseType::try_from (TryFromPrimitive): None stands for Err
BaseType_try_from(number) ==
    LET hit == {d \in BaseTypeDiscriminants : d[2] = number}
    IN  IF hit = {} THEN None ELSE Some((CHOOSE d \in hit : TRUE)[1])

BaseTypeInfo(base_type, endian_ability, base_type_field, type_name, invalid_value, size) ==
    [base_type |-> base_type, endian_ability |-> endian_ability,
     base_type_field |-> base_type_field, type_name |-> type_name,
     invalid_value |-> invalid_value, size |-> size]

\* the match of get_base_type_info
BaseTypeInfoOf(base_type) ==
    CASE base_type = "Enum" ->
            BaseTypeInfo(base_type, FALSE, 0, "enum", U64(0, 0, 0, 255), 1)
      [] base_type = "Sint8" ->
            BaseTypeInfo(base_type, FALSE, 1, "sint8", U64(0, 0, 0, 127), 1)
      [] base_type = "Uint8" ->
            BaseTypeInfo(base_type, FALSE, 2, "uint8", U64(0, 0, 0, 255), 1)
      [] base_type = "Sint16" ->
            BaseTypeInfo(base_type, TRUE, 131, "sint16", U64(0, 0, 0, 32767), 2)
      [] base_type = "Uint16" ->
            BaseTypeInfo(base_type, TRUE, 132, "uint16", U64(0, 0, 0, 65535), 2)
      [] base_type = "Sint32" ->
            BaseTypeInfo(base_type, TRUE, 133, "sint32", U64(0, 0, 32767, 65535), 4)
      [] base_type = "Uint32" ->
            BaseTypeInfo(base_type, TRUE, 134, "uint32", U64(0, 0, 65535, 65535), 4)
      [] base_type = "String" ->
            BaseTypeInfo(base_type, FALSE, 7, "string", U64(0, 0, 0, 0), 1)
      [] base_type = "Float32" ->
            BaseTypeInfo(base_type, TRUE, 136, "float32", U64(0, 0, 65535, 65535), 4)
      [] base_type = "Float64" ->
            BaseTypeInfo(base_type, TRUE, 137, "float64", U64(65535, 65535, 65535, 65535), 8)
      [] base_type = "Uint8z" ->
            BaseTypeInfo(base_type, FALSE, 10, "uint8z", U64(0, 0, 0, 0), 1)
      [] base_type = "Uint16z" ->
            BaseTypeInfo(base_type, TRUE, 139, "uint16z", U64(0, 0, 0, 0), 2)
      [] base_type = "Uint32z" ->
            BaseTypeInfo(base_type, TRUE, 140, "uint32z", U64(0, 0, 0, 0), 4)
      [] base_type = "Byte" ->
            BaseTypeInfo(base_type, FALSE, 13, "byte", U64(0, 0, 0, 255), 1)
      [] base_type = "Sint64" ->
            BaseTypeInfo(base_type, TRUE, 142, "sint64", U64(32767, 65535, 65535, 65535), 8)
      [] base_type = "Uint64" ->
            BaseTypeInfo(base_type, TRUE, 143, "uint64", U64(65535, 65535, 65535, 65535), 8)
      [] base_type = "Uint64z" ->
            BaseTypeInfo(base_type, TRUE, 144, "uint64z", U64(0, 0, 0, 0), 8)

\* a plausible slip: every type reported as not endian-sensitive
get_base_type_info_endian_lost(number) ==
    LET base_type == BaseType_try_from(number)
    IN  IF base_type = None THEN None
        ELSE Some([BaseTypeInfoOf(base_type[1]) EXCEPT !.endian_ability = FALSE])

\* get_base_type_info: None stands for the panic of unwrap() on an unknown
\* code
get_base_type_info(number) ==
    LET base_type == BaseType_try_from(number)
    IN  IF base_type = None THEN None
        ELSE Some(BaseTypeInfoOf(base_type[1]))

-----------------------------------------------------------------------------
(* 4.F  Definition-record decoder *)

\* a plausible slip: only the value 1 taken as big-endian
architecture_of_one_only(b) == IF b = 1 THEN "BigEndian" ELSE "LittleEndian"

\* let architecture = if data[curr_idx] > 0 { BigEndian } else { LittleEndian }
architecture_of(b) == IF b > 0 THEN "BigEndian" ELSE "LittleEndian"

\* BigEndian::read_u16
BigEndian_read_u16(s) == 256 * s[1] + s[2]

\* the match on architecture that reads global_message_number
read_global_message_number(architecture, s) ==
    CASE architecture = "LittleEndian" -> LittleEndian_read_u16(s)
      [] architecture = "BigEndian"    -> BigEndian_read_u16(s)

\* a plausible slip: the check of the field size left out
FieldSizeUnchecked(size, base_size) == TRUE

\* the negation of: if size % base_type.size != 0 { panic!(..) }
FieldSizeIsMultiple(size, base_size) == size % base_size = 0

\* a plausible slip: the cursor advanced by 2 after a 3-byte entry
next_field_idx_short(curr_idx) == curr_idx + 2

\* curr_idx += 3
next_field_idx(curr_idx) == curr_idx + 3

FieldDefinition(field_definition_number, field_size, base_type) ==
    [field_definition_number |-> field_definition_number,
     field_size |-> field_size,
     base_type |-> base_type]

\* a plausible slip: size and developer_data_index taken in the other order
DeveloperFieldDefinition_swapped(field_number, field_size, developer_data_index) ==
    [field_number |-> field_number,
     field_size |-> developer_data_index,
     developer_data_index |-> field_size]

DeveloperFieldDefinition(field_number, field_size, developer_data_index) ==
    [field_number |-> field_number,
     field_size |-> field_size,
     developer_data_index |-> developer_data_index]

\* the state of a loop over entries: the panic that ended it ("" for none),
\* the entries pushed and the cursor
LoopState(panic, entries, curr_idx) ==
    [panic |-> panic, entries |-> entries, curr_idx |-> curr_idx]

\* for _ in 0..number_of_fields { .. }, with remaining iterations to go
RECURSIVE read_field_definitions(_, _, _, _)
read_field_definitions(data, curr_idx, remaining, fields) ==
    IF remaining = 0 THEN LoopState("", fields, curr_idx)
    ELSE IF curr_idx + 2 >= Len(data)
        THEN LoopState("index out of bounds", fields, curr_idx)
    ELSE LET field_definition_number == At(data, curr_idx)
             size == At(data, curr_idx + 1)
             base_type_number == At(data, curr_idx + 2)
             base_type == get_base_type_info(base_type_number)
         IN  IF base_type = None
                 THEN LoopState("unwrap on Err", fields, curr_idx)
             ELSE IF ~FieldSizeIsMultiple(size, base_type[1].size)
                 THEN LoopState("size not multiple of base type size",
                                fields, curr_idx)
             ELSE read_field_definitions(
                      data, next_field_idx(curr_idx), remaining - 1,
                      Append(fields,
                             FieldDefinition(field_definition_number, size,
                                             base_type[1])))

\* a plausible slip: the loop left at the end of the buffer, and the entries
\* read so far returned
RECURSIVE read_developer_field_definitions_to_end(_, _, _, _)
read_developer_field_definitions_to_end(data, curr_idx, remaining, developer_fields) ==
    IF remaining = 0 \/ curr_idx + 2 >= Len(data)
        THEN LoopState("", developer_fields, curr_idx)
    ELSE read_developer_field_definitions_to_end(
             data, curr_idx + 3, remaining - 1,
             Append(developer_fields,
                    DeveloperFieldDefinition(At(data, curr_idx),
                                             At(data, curr_idx + 1),
                                             At(data, curr_idx + 2))))

\* for _ in 0..number_of_developer_fields { .. }
RECURSIVE read_developer_field_definitions(_, _, _, _)
read_developer_field_definitions(data, curr_idx, remaining, developer_fields) ==
    IF remaining = 0 THEN LoopState("", developer_fields, curr_idx)
    ELSE IF curr_idx + 2 >= Len(data)
        THEN LoopState("index out of bounds", developer_fields, curr_idx)
    ELSE read_developer_field_definitions(
             data, next_field_idx(curr_idx), remaining - 1,
             Append(developer_fields,
                    DeveloperFieldDefinition(At(data, curr_idx),
                                             At(data, curr_idx + 1),
                                             At(data, curr_idx + 2))))

\* a panic: neither a record nor a cursor is returned
DefPanic(why) == [outcome |-> "panic", panic |-> why, record |-> None, idx |-> None]

\* (record, curr_idx)
DefReturned(record, curr_idx) ==
    [outcome |-> "ok", panic |-> "", record |-> Some(record), idx |-> Some(curr_idx)]

DefinitionRecord(header, architecture, global_message_number, field_definitions, developer_field_definitions) ==
    [header |-> header,
     architecture |-> architecture,
     global_message_number |-> global_message_number,
     field_definitions |-> field_definitions,
     developer_field_definitions |-> developer_field_definitions]

\* parse_definition_record.  An index or a range beyond the end of data
\* panics, as does an unknown base type and a size that is no multiple.
parse_definition_record(data, header, data_start_offset) ==
    LET len == Len(data)
        arch_idx == data_start_offset + 1
        architecture == architecture_of(At(data, arch_idx))
        gmn_idx == arch_idx + 1
        global_message_number ==
            read_global_message_number(architecture, Slice(data, gmn_idx, gmn_idx + 1))
        nof_idx == gmn_idx + 2
        number_of_fields == At(data, nof_idx)
        f == read_field_definitions(data, nof_idx + 1, number_of_fields, <<>>)
        number_of_developer_fields == At(data, f.curr_idx)
        d == read_developer_field_definitions(
                 data, f.curr_idx + 1, number_of_developer_fields, <<>>)
        record(developer_fields, curr_idx) ==
            DefReturned(
                DefinitionRecord(header, architecture, global_message_number,
                                 f.entries, developer_fields),
                curr_idx)
    IN  IF arch_idx >= len THEN DefPanic("index out of bounds")
        ELSE IF gmn_idx + 1 >= len THEN DefPanic("range end out of bounds")
        ELSE IF nof_idx >= len THEN DefPanic("index out of bounds")
        ELSE IF f.panic # "" THEN DefPanic(f.panic)
        ELSE IF ~header.contains_extended_definitions
            THEN record(<<>>, f.curr_idx)
        ELSE IF f.curr_idx >= len THEN DefPanic("index out of bounds")
        ELSE IF d.panic # "" THEN DefPanic(d.panic)
        ELSE record(d.entries, d.curr_idx)

-----------------------------------------------------------------------------
(* The copies of the decoder that parser/src/main.rs holds, from main.rs   *)
(* itself: the base types, the record-header classifier, the definition    *)
(* decoder, the header decoder and the CRC engine.                         *)

\* enum BaseType of main.rs
main_BaseTypeDiscriminants ==
    { <<"Enum", 0>>,
      <<"Sint8", 1>>,
      <<"Uint8", 2>>,
      <<"Sint16", 131>>,
      <<"Uint16", 132>>,
      <<"Sint32", 133>>,
      <<"Uint32", 134>>,
      <<"String", 7>>,
      <<"Float32", 136>>,
      <<"Float64", 137>>,
      <<"Uint8z", 10>>,
      <<"Uint16z", 139>>,
      <<"Uint32z", 140>>,
      <<"Byte", 13>>,
      <<"Sint64", 142>>,
      <<"Uint64", 143>>,
      <<"Uint64z", 144>> }

main_BaseType_try_from(number) ==
    LET hit == {d \in main_BaseTypeDiscriminants : d[2] = number}
    IN  IF hit = {} THEN None ELSE Some((CHOOSE d \in hit : TRUE)[1])

\* the match of get_base_type_info of main.rs
main_BaseTypeInfoOf(base_type) ==
    CASE base_type = "Enum" ->
            BaseTypeInfo(base_type, FALSE, 0, "enum", U64(0, 0, 0, 255), 1)
      [] base_type = "Sint8" ->
            BaseTypeInfo(base_type, FALSE, 1, "sint8", U64(0, 0, 0, 127), 1)
      [] base_type = "Uint8" ->
            BaseTypeInfo(base_type, FALSE, 2, "uint8", U64(0, 0, 0, 255), 1)
      [] base_type = "Sint16" ->
            BaseTypeInfo(base_type, TRUE, 131, "sint16", U64(0, 0, 0, 32767), 2)
      [] base_type = "Uint16" ->
            BaseTypeInfo(base_type, TRUE, 132, "uint16", U64(0, 0, 0, 65535), 2)
      [] base_type = "Sint32" ->
            BaseTypeInfo(base_type, TRUE, 133, "sint32", U64(0, 0, 32767, 65535), 4)
      [] base_type = "Uint32" ->
            BaseTypeInfo(base_type, TRUE, 134, "uint32", U64(0, 0, 65535, 65535), 4)
      [] base_type = "String" ->
            BaseTypeInfo(base_type, FALSE, 7, "string", U64(0, 0, 0, 0), 1)
      [] base_type = "Float32" ->
            BaseTypeInfo(base_type, TRUE, 136, "float32", U64(0, 0, 65535, 65535), 4)
      [] base_type = "Float64" ->
            BaseTypeInfo(base_type, TRUE, 137, "float64", U64(65535, 65535, 65535, 65535), 8)
      [] base_type = "Uint8z" ->
            BaseTypeInfo(base_type, FALSE, 10, "uint8z", U64(0, 0, 0, 0), 1)
      [] base_type = "Uint16z" ->
            BaseTypeInfo(base_type, TRUE, 139, "uint16z", U64(0, 0, 0, 0), 2)
      [] base_type = "Uint32z" ->
            BaseTypeInfo(base_type, TRUE, 140, "uint32z", U64(0, 0, 0, 0), 4)
      [] base_type = "Byte" ->
            BaseTypeInfo(base_type, FALSE, 13, "byte", U64(0, 0, 0, 255), 1)
      [] base_type = "Sint64" ->
            BaseTypeInfo(base_type, TRUE, 142, "sint64", U64(32767, 65535, 65535, 65535), 8)
      [] base_type = "Uint64" ->
            BaseTypeInfo(base_type, TRUE, 143, "uint64", U64(65535, 65535, 65535, 65535), 8)
      [] base_type = "Uint64z" ->
            BaseTypeInfo(base_type, TRUE, 144, "uint64z", U64(0, 0, 0, 0), 8)

main_get_base_type_info(number) ==
    LET base_type == main_BaseType_try_from(number)
    IN  IF base_type = None THEN None
        ELSE Some(main_BaseTypeInfoOf(base_type[1]))

\* enum RecordHeader of main.rs
CompressedTimestampHeader(local_message_type, time_offset) ==
    [variant |-> "CompressedTimestampHeader",
     local_message_type |-> local_message_type,
     time_offset |-> time_offset]

NormalDefinitionHeader(contains_extended_definitions, local_message_type) ==
    [variant |-> "NormalDefinitionHeader",
     contains_extended_definitions |-> contains_extended_definitions,
     local_message_type |-> local_message_type]

NormalDataHeader(local_message_type) ==
    [variant |-> "NormalDataHeader", local_message_type |-> local_message_type]

\* a plausible slip: the 4-bit slot mask applied to a compressed-timestamp
\* header in one of the two copies only
main_parse_record_header_slot_masked(b) ==
    IF BitAnd(b, 128) > 0
        THEN CompressedTimestampHeader(BitAnd(b, 15), BitAnd(b, 31))
    ELSE IF BitAnd(b, 64) > 0
        THEN NormalDefinitionHeader(BitAnd(b, 32) > 0, BitAnd(b, 15))
    ELSE NormalDataHeader(BitAnd(b, 15))

\* parse_record_header of main.rs
main_parse_record_header(b) ==
    IF BitAnd(b, 128) > 0
        THEN CompressedTimestampHeader(BitAnd(b, 96), BitAnd(b, 31))
    ELSE IF BitAnd(b, 64) > 0
        THEN NormalDefinitionHeader(BitAnd(b, 32) > 0, BitAnd(b, 15))
    ELSE NormalDataHeader(BitAnd(b, 15))

\* the loop over the fields of parse_definition_record of main.rs
RECURSIVE main_read_field_definitions(_, _, _, _)
main_read_field_definitions(data, curr_idx, remaining, fields) ==
    IF remaining = 0 THEN LoopState("", fields, curr_idx)
    ELSE IF curr_idx + 2 >= Len(data)
        THEN LoopState("index out of bounds", fields, curr_idx)
    ELSE LET field_definition_number == At(data, curr_idx)
             size == At(data, curr_idx + 1)
             base_type_number == At(data, curr_idx + 2)
             base_type == main_get_base_type_info(base_type_number)
         IN  IF base_type = None
                 THEN LoopState("unwrap on Err", fields, curr_idx)
             ELSE IF size % base_type[1].size # 0
                 THEN LoopState("size not multiple of base type size",
                                fields, curr_idx)
             ELSE main_read_field_definitions(
                      data, curr_idx + 3, remaining - 1,
                      Append(fields,
                             FieldDefinition(field_definition_number, size,
                                             base_type[1])))

\* the loop over the developer fields of parse_definition_record of main.rs
RECURSIVE main_read_developer_field_definitions(_, _, _, _)
main_read_developer_field_definitions(data, curr_idx, remaining, developer_fields) ==
    IF remaining = 0 THEN LoopState("", developer_fields, curr_idx)
    ELSE IF curr_idx + 2 >= Len(data)
        THEN LoopState("index out of bounds", developer_fields, curr_idx)
    ELSE main_read_developer_field_definitions(
             data, curr_idx + 3, remaining - 1,
             Append(developer_fields,
                    DeveloperFieldDefinition(At(data, curr_idx),
                                             At(data, curr_idx + 1),
                                             At(data, curr_idx + 2))))

\* parse_definition_record of main.rs
main_parse_definition_record(data, header, data_start_offset) ==
    LET len == Len(data)
        arch_idx == data_start_offset + 1
        architecture ==
            IF At(data, arch_idx) > 0 THEN "BigEndian" ELSE "LittleEndian"
        gmn_idx == arch_idx + 1
        gmn_slice == Slice(data, gmn_idx, gmn_idx + 1)
        global_message_number ==
            CASE architecture = "LittleEndian" -> LittleEndian_read_u16(gmn_slice)
              [] architecture = "BigEndian"    -> BigEndian_read_u16(gmn_slice)
        nof_idx == gmn_idx + 2
        number_of_fields == At(data, nof_idx)
        f == main_read_field_definitions(data, nof_idx + 1, number_of_fields, <<>>)
        number_of_developer_fields == At(data, f.curr_idx)
        d == main_read_developer_field_definitions(
                 data, f.curr_idx + 1, number_of_developer_fields, <<>>)
        record(developer_fields, curr_idx) ==
            DefReturned(
                DefinitionRecord(header, architecture, global_message_number,
                                 f.entries, developer_fields),
                curr_idx)
    IN  IF arch_idx >= len THEN DefPanic("index out of bounds")
        ELSE IF gmn_idx + 1 >= len THEN DefPanic("range end out of bounds")
        ELSE IF nof_idx >= len THEN DefPanic("index out of bounds")
        ELSE IF f.panic # "" THEN DefPanic(f.panic)
        ELSE IF ~header.contains_extended_definitions
            THEN record(<<>>, f.curr_idx)
        ELSE IF f.curr_idx >= len THEN DefPanic("index out of bounds")
        ELSE IF d.panic # "" THEN DefPanic(d.panic)
        ELSE record(d.entries, d.curr_idx)

\* the offsets of main.rs
FIT_FILE_HEADER_HEADER_SIZE_OFFSET == 0
FIT_FILE_HEADER_PROTOCOL_VERSION_OFFSET == 1
FIT_FILE_HEADER_PROFILE_VERSION_LSB_OFFSET == 2
FIT_FILE_HEADER_PROFILE_VERSION_MSB_OFFSET == 3
FIT_FILE_HEADER_DATA_SIZE_LSB_OFFSET == 4
FIT_FILE_HEADER_DATA_SIZE_MSB_OFFSET == 7
FIT_FILE_HEADER_DATA_TYPE_START_OFFSET == 8
FIT_FILE_HEADER_DATA_TYPE_END_OFFSET == 11
FIT_FILE_HEADER_CRC_LSB_OFFSET == 12
FIT_FILE_HEADER_CRC_MSB_OFFSET == 13

\* static CRC_TABLE of main.rs
main_CRC_TABLE ==
    << 0, 52225, 55297, 5120, 61441, 15360, 10240, 58369,
       40961, 27648, 30720, 46081, 20480, 39937, 34817, 17408 >>

\* one iteration of the loops of fit_crc and fit_crc_vec of main.rs
main_CrcByte(crc0, byte) ==
    LET tmp1 == main_CRC_TABLE[BitAnd(crc0, 15) + 1]
        crc1 == BitAnd(Shr(crc0, 4), 4095)
        crc2 == BitXor(BitXor(crc1, tmp1), main_CRC_TABLE[BitAnd(byte, 15) + 1])
        tmp2 == main_CRC_TABLE[BitAnd(crc2, 15) + 1]
        crc3 == BitAnd(Shr(crc2, 4), 4095)
    IN  BitXor(BitXor(crc3, tmp2), main_CRC_TABLE[BitAnd(Shr(byte, 4), 15) + 1])

main_fit_crc(data, crc_in) ==
    LET crc[i \in 0..Len(data)] ==
            IF i = 0 THEN crc_in
            ELSE LET prev == crc[i - 1]
                 IN  CASE prev \in U16 -> main_CrcByte(prev, data[i])
    IN  crc[Len(data)]

main_fit_crc_vec(data, crc_in) ==
    LET crc[i \in 0..Len(data)] ==
            IF i = 0 THEN crc_in
            ELSE LET prev == crc[i - 1]
                 IN  CASE prev \in U16 -> main_CrcByte(prev, data[i])
    IN  crc[Len(data)]

\* FitFileHeader::from of main.rs
main_FitFileHeader_from(data) ==
    LET len == Len(data)
        header_size == At(data, FIT_FILE_HEADER_HEADER_SIZE_OFFSET)
        protocol_version == At(data, FIT_FILE_HEADER_PROTOCOL_VERSION_OFFSET)
        profile_version ==
            LittleEndian_read_u16(
                Slice(data, FIT_FILE_HEADER_PROFILE_VERSION_LSB_OFFSET,
                      FIT_FILE_HEADER_PROFILE_VERSION_MSB_OFFSET))
        data_size ==
            LittleEndian_read_u32(
                Slice(data, FIT_FILE_HEADER_DATA_SIZE_LSB_OFFSET,
                      FIT_FILE_HEADER_DATA_SIZE_MSB_OFFSET))
        data_type ==
            Slice(data, FIT_FILE_HEADER_DATA_TYPE_START_OFFSET,
                  FIT_FILE_HEADER_DATA_TYPE_END_OFFSET)
        crc_in_data ==
            LittleEndian_read_u16(
                Slice(data, FIT_FILE_HEADER_CRC_LSB_OFFSET,
                      FIT_FILE_HEADER_CRC_MSB_OFFSET))
        calculated_crc ==
            main_fit_crc_vec(Slice(data, 0, FIT_FILE_HEADER_CRC_LSB_OFFSET - 1), 0)
        header(crc) ==
            [header_size |-> header_size,
             protocol_version |-> protocol_version,
             profile_version |-> profile_version,
             data_size |-> data_size,
             data_type |-> data_type,
             crc |-> crc]
    IN  IF len <= FIT_FILE_HEADER_HEADER_SIZE_OFFSET
            THEN Panic("index out of bounds", {})
        ELSE IF ~(header_size <= len)
            THEN Panic("assertion failed", 0..FIT_FILE_HEADER_HEADER_SIZE_OFFSET)
        ELSE IF len <= FIT_FILE_HEADER_PROTOCOL_VERSION_OFFSET
            THEN Panic("index out of bounds", 0..FIT_FILE_HEADER_HEADER_SIZE_OFFSET)
        ELSE IF len <= FIT_FILE_HEADER_PROFILE_VERSION_MSB_OFFSET
            THEN Panic("range end out of bounds",
                       0..FIT_FILE_HEADER_PROTOCOL_VERSION_OFFSET)
        ELSE IF len <= FIT_FILE_HEADER_DATA_SIZE_MSB_OFFSET
            THEN Panic("range end out of bounds",
                       0..FIT_FILE_HEADER_PROFILE_VERSION_MSB_OFFSET)
        ELSE IF len <= FIT_FILE_HEADER_DATA_TYPE_END_OFFSET
            THEN Panic("range end out of bounds",
                       0..FIT_FILE_HEADER_DATA_SIZE_MSB_OFFSET)
        ELSE IF ~from_utf8_is_ok(data_type)
            THEN Panic("unwrap on Err", 0..FIT_FILE_HEADER_DATA_TYPE_END_OFFSET)
        ELSE IF ~(header_size > FIT_FILE_HEADER_CRC_LSB_OFFSET
                    /\ header_size >= FIT_FILE_HEADER_CRC_MSB_OFFSET)
            THEN Returned(header(None), 0..FIT_FILE_HEADER_DATA_TYPE_END_OFFSET)
        ELSE IF len <= FIT_FILE_HEADER_CRC_MSB_OFFSET
            THEN Panic("range end out of bounds",
                       0..FIT_FILE_HEADER_DATA_TYPE_END_OFFSET)
        ELSE IF crc_in_data # calculated_crc
            THEN Panic("crc mismatch", 0..FIT_FILE_HEADER_CRC_MSB_OFFSET)
        ELSE Returned(header(Some(crc_in_data)), 0..FIT_FILE_HEADER_CRC_MSB_OFFSET)

-----------------------------------------------------------------------------
(* Strings of the profile catalogs.  A cell that the loader splits, trims  *)
(* or parses is a sequence of one-character strings; a cell it only copies *)
(* or tests for emptiness is a TLA+ string.                                *)

Upper == <<"A", "B", "C", "D", "E", "F", "G", "H", "I", "J", "K", "L", "M",
           "N", "O", "P", "Q", "R", "S", "T", "U", "V", "W", "X", "Y", "Z">>
Lower == <<"a", "b", "c", "d", "e", "f", "g", "h", "i", "j", "k", "l", "m",
           "n", "o", "p", "q", "r", "s", "t", "u", "v", "w", "x", "y", "z">>
Digits == <<"0", "1", "2", "3", "4", "5", "6", "7", "8", "9",
            "a", "b", "c", "d", "e", "f">>

\* char::to_ascii_lowercase / the lowercase of an ASCII char
ToLowerChar(c) ==
    IF \E i \in 1..26 : Upper[i] = c
        THEN Lower[CHOOSE i \in 1..26 : Upper[i] = c]
        ELSE c

\* str::to_lowercase on ASCII text
to_lowercase(s) == [i \in 1..Len(s) |-> ToLowerChar(s[i])]

\* str::eq_ignore_ascii_case
eq_ignore_ascii_case(s, t) == to_lowercase(s) = to_lowercase(t)

\* char::is_whitespace for the characters of the cells
is_whitespace(c) == c \in {" ", "\t"}

\* str::trim
RECURSIVE trim_start(_)
trim_start(s) ==
    IF s # <<>> /\ is_whitespace(Head(s)) THEN trim_start(Tail(s)) ELSE s

RECURSIVE trim_end(_)
trim_end(s) ==
    IF s # <<>> /\ is_whitespace(s[Len(s)])
        THEN trim_end(SubSeq(s, 1, Len(s) - 1))
        ELSE s

trim(s) == trim_end(trim_start(s))

\* str::starts_with, str::ends_with
starts_with(s, prefix) ==
    Len(s) >= Len(prefix) /\ SubSeq(s, 1, Len(prefix)) = prefix
ends_with(s, suffix) ==
    Len(s) >= Len(suffix)
        /\ SubSeq(s, Len(s) - Len(suffix) + 1, Len(s)) = suffix

\* str::trim_start_matches: the prefix removed as often as it is there
RECURSIVE trim_start_matches(_, _)
trim_start_matches(s, prefix) ==
    IF prefix # <<>> /\ starts_with(s, prefix)
        THEN trim_start_matches(SubSeq(s, Len(prefix) + 1, Len(s)), prefix)
        ELSE s

\* str::split(','): the pieces between the separators, one more than there
\* are separators
RECURSIVE split(_, _)
split(s, sep) ==
    IF \A i \in 1..Len(s) : s[i] # sep THEN <<s>>
    ELSE LET i == CHOOSE i \in 1..Len(s) :
                      s[i] = sep /\ \A j \in 1..(i - 1) : s[j] # sep
         IN  <<SubSeq(s, 1, i - 1)>> \o split(SubSeq(s, i + 1, Len(s)), sep)

\* the value of a digit in a radix, -1 for any other character
DigitValue(c, radix) ==
    IF \E i \in 1..radix : Digits[i] = ToLowerChar(c)
        THEN (CHOOSE i \in 1..radix : Digits[i] = ToLowerChar(c)) - 1
        ELSE -1

RECURSIVE DigitsValue(_, _, _)
DigitsValue(s, radix, acc) ==
    IF s = <<>> THEN acc
    ELSE DigitsValue(Tail(s), radix, acc * radix + DigitValue(Head(s), radix))

\* from_str_radix for an unsigned type: an optional "+", then at least one
\* digit and digits only; None stands for Err.  The cells of the model are
\* too short for a value beyond 32 bits.
from_str_radix(s, radix) ==
    LET digits == IF s # <<>> /\ Head(s) = "+" THEN Tail(s) ELSE s
    IN  IF digits = <<>> THEN None
        ELSE IF \E i \in 1..Len(digits) : DigitValue(digits[i], radix) < 0
            THEN None
        ELSE Some(DigitsValue(digits, radix, 0))

\* str::parse::<u8>
parse_u8(s) ==
    LET v == from_str_radix(s, 10)
    IN  IF v = None \/ v[1] > 255 THEN None ELSE v

\* str::parse::<u32> and str::parse::<usize>
parse_u32(s) == from_str_radix(s, 10)
parse_usize(s) == from_str_radix(s, 10)

-----------------------------------------------------------------------------
(* 4.B  Profile schema loader: the array column *)

\* enum FitMessageArrayType
NotArray == [variant |-> "NotArray", size |-> 0]
FixedSizeArray(n) == [variant |-> "FixedSizeArray", size |-> n]
VariableSizeArray == [variant |-> "VariableSizeArray", size |-> 0]

\* parse_fit_message_array: None stands for a panic
parse_fit_message_array(array_def) ==
    LET s == trim(array_def)
    IN  IF s = <<>> THEN Some(NotArray)
        ELSE IF eq_ignore_ascii_case(s, <<"[", "N", "]">>)
            THEN Some(VariableSizeArray)
        ELSE IF starts_with(s, <<"[">>) /\ ends_with(s, <<"]">>)
            THEN IF 1 > Len(s) - 1 THEN None    \* &s[1..0] panics
                 ELSE LET trimmed == SubSeq(s, 2, Len(s) - 1)
                          parsed == parse_usize(trimmed)
                      IN  IF parsed = None THEN None
                          ELSE Some(FixedSizeArray(parsed[1]))
        ELSE None

-----------------------------------------------------------------------------
(* 4.B  Profile schema loader: the type catalog.  A record of the catalog  *)
(* is [type_name, base_type, value_name, value, comment], every cell a     *)
(* sequence of characters.                                                 *)

\* what a loop iteration or a call ends in: "ok", "err" (the Err that the ?
\* operator returns) or "panic"
Step(outcome, locals) == [outcome |-> outcome, locals |-> locals]

FitTypeValue(value_name, value, comment) ==
    [value_name |-> value_name, value |-> value, comment |-> comment]

FitType(type_name, base_type, values) ==
    [type_name |-> type_name, base_type |-> base_type, values |-> values]

\* let mut first_type = true;
first_type_init == TRUE

\* the locals of read_profile_types before the loop
read_profile_types_start ==
    [fit_types |-> <<>>,
     curr_fit_type |-> FitType(<<>>, <<>>, <<>>),
     first_type |-> first_type_init]

\* a plausible slip: a value with the 0x prefix read as decimal digits
parse_type_value_decimal_only(value_str) ==
    IF starts_with(to_lowercase(value_str), <<"0", "x">>)
        THEN parse_u32(trim_start_matches(to_lowercase(value_str), <<"0", "x">>))
        ELSE parse_u32(value_str)

\* the value of a value record: hexadecimal after 0x, else decimal
parse_type_value(value_str) ==
    IF starts_with(to_lowercase(value_str), <<"0", "x">>)
        THEN from_str_radix(
                 trim_start_matches(to_lowercase(value_str), <<"0", "x">>), 16)
        ELSE parse_u32(value_str)

\* one iteration of the loop of read_profile_types
read_profile_types_row(l, rec) ==
    IF rec.type_name # <<>>
        THEN LET pushed ==
                     IF ~l.first_type
                         THEN [l EXCEPT !.fit_types = Append(@, l.curr_fit_type),
                                        !.first_type = FALSE]
                         ELSE l
             IN  Step("ok",
                      [pushed EXCEPT
                          !.fit_types = Append(@, pushed.curr_fit_type),
                          !.curr_fit_type =
                              FitType(rec.type_name, rec.base_type, <<>>)])
    ELSE LET value_str == trim(rec.value)
             value == parse_type_value(value_str)
         IN  IF value = None THEN Step("err", l)
             ELSE Step("ok",
                       [l EXCEPT !.curr_fit_type.values =
                           Append(@, FitTypeValue(rec.value_name, value[1],
                                                  rec.comment))])

\* fit_types.push(curr_fit_type); Ok(fit_types)
read_profile_types_end(l) == Append(l.fit_types, l.curr_fit_type)

-----------------------------------------------------------------------------
(* 4.C  Profile emitter.  The String an emitter returns is the sequence of *)
(* its lines, a line being the values that format! is given.               *)

\* convert_case: the name in the given case
to_case(name, case) == [case |-> case, of |-> name]

Enum == <<"e", "n", "u", "m">>
Deprecated == <<"d", "e", "p", "r", "e", "c", "a", "t", "e", "d">>

\* a plausible slip: the comment compared without lowering its case
IsDeprecated_case_sensitive(comment) == starts_with(trim(comment), Deprecated)

\* val.comment.trim().to_lowercase().starts_with("deprecated")
IsDeprecated(comment) == starts_with(to_lowercase(trim(comment)), Deprecated)

\* generate_enum_type_as_string
RECURSIVE enum_lines(_)
enum_lines(values) ==
    IF values = <<>> THEN <<>>
    ELSE LET val == Head(values)
         IN  (IF IsDeprecated(val.comment) THEN <<>>
              ELSE <<[line |-> "variant",
                      name |-> to_case(val.value_name, "UpperCamel"),
                      value |-> val.value,
                      comment |-> val.comment]>>)
             \o enum_lines(Tail(values))

generate_enum_type_as_string(t) ==
    IF t.base_type # Enum THEN Some(<<>>)
    ELSE Some(<<[line |-> "pub enum", name |-> to_case(t.type_name, "UpperCamel")]>>
              \o enum_lines(t.values)
              \o <<[line |-> "}"]>>)

\* fit_type_to_rust_type: None stands for the panic
fit_type_to_rust_type(fit_type) ==
    CASE fit_type = <<"u", "i", "n", "t", "8">> -> Some("u8")
      [] fit_type = <<"u", "i", "n", "t", "8", "z">> -> Some("u8")
      [] fit_type = <<"u", "i", "n", "t", "1", "6">> -> Some("u16")
      [] fit_type = <<"u", "i", "n", "t", "1", "6", "z">> -> Some("u16")
      [] fit_type = <<"u", "i", "n", "t", "3", "2">> -> Some("u32")
      [] fit_type = <<"u", "i", "n", "t", "3", "2", "z">> -> Some("u32")
      [] OTHER -> None

\* the lines of the loop of generate_fit_trait_as_string
RECURSIVE trait_lines(_, _)
trait_lines(values, rust_type) ==
    IF values = <<>> THEN <<>>
    ELSE LET val == Head(values)
         IN  <<[line |-> "const",
                name |-> to_case(val.value_name, "UpperSnake"),
                underscore |-> DigitValue(val.value_name[1], 10) >= 0,
                rust_type |-> rust_type,
                value |-> val.value,
                comment |-> val.comment]>>
             \o trait_lines(Tail(values), rust_type)

\* generate_fit_trait_as_string: None stands for a panic (an unknown base
\* type, or unwrap() on the first character of an empty value name)
generate_fit_trait_as_string(t) ==
    LET type_name_cased == to_case(t.type_name, "UpperCamel")
        rust_type == fit_type_to_rust_type(t.base_type)
    IN  IF rust_type = None THEN None
        ELSE IF \E i \in 1..Len(t.values) : t.values[i].value_name = <<>>
            THEN None
        ELSE Some(<<[line |-> "trait", name |-> type_name_cased]>>
                  \o trait_lines(t.values, rust_type[1])
                  \o <<[line |-> "}"],
                       [line |-> "struct", name |-> type_name_cased],
                       [line |-> "impl", name |-> type_name_cased]>>)

\* one iteration of the loop over the types in main of parser/build.rs: what
\* is appended to codegen_str for the type; None stands for a panic
emit_type(t) ==
    IF t.type_name = <<>> THEN Some(<<>>)
    ELSE LET str == IF t.base_type = Enum
                      THEN generate_enum_type_as_string(t)
                      ELSE generate_fit_trait_as_string(t)
         IN  IF str = None THEN None
             ELSE Some(str[1] \o <<[line |-> ""]>>)

-----------------------------------------------------------------------------
(* 4.B  Profile schema loader: the message catalog.  A record of the       *)
(* catalog has the 16 columns of the source, every cell a sequence of      *)
(* characters.                                                             *)

\* str::parse::<i16>: an optional sign, then digits
parse_i16(s) ==
    IF s # <<>> /\ Head(s) = "-"
        THEN LET v == IF Len(s) > 1 /\ s[2] = "+" THEN None
                      ELSE from_str_radix(Tail(s), 10)
             IN  IF v = None \/ v[1] > 32768 THEN None ELSE Some(0 - v[1])
    ELSE LET v == from_str_radix(s, 10)
         IN  IF v = None \/ v[1] > 32767 THEN None ELSE v

\* an f32 written with digits and a decimal point: the digits as an integer
\* and the number of digits after the point, trailing zeros dropped
RECURSIVE F32(_, _)
F32(num, frac) ==
    IF frac > 0 /\ num % 10 = 0 THEN F32(num \div 10, frac - 1)
    ELSE <<num, frac>>

\* str::parse::<f32> on the characters of the scale cells (sign, digits and
\* point): at least one digit, at most one point; None stands for Err
parse_f32(s) ==
    LET neg == s # <<>> /\ Head(s) = "-"
        body == IF s # <<>> /\ Head(s) \in {"+", "-"} THEN Tail(s) ELSE s
        parts == split(body, ".")
        int == parts[1]
        frac == IF Len(parts) = 2 THEN parts[2] ELSE <<>>
        all == int \o frac
    IN  IF Len(parts) > 2 \/ all = <<>> THEN None
        ELSE IF \E i \in 1..Len(all) : DigitValue(all[i], 10) < 0 THEN None
        ELSE LET num == DigitsValue(all, 10, 0)
             IN  Some(F32(IF neg THEN 0 - num ELSE num, Len(frac)))

\* .map(|s| s.trim().parse().unwrap_or_else(|_| panic!(..))).collect() on
\* the results of parse: None stands for the panic
Collected(parsed) ==
    IF \E i \in 1..Len(parsed) : parsed[i] = None THEN None
    ELSE Some([i \in 1..Len(parsed) |-> parsed[i][1]])

parse_fit_message_scale_record(s) ==
    IF s = <<>> THEN Some(<<F32(1, 0)>>)
    ELSE LET pieces == split(s, ",")
         IN  Collected([i \in 1..Len(pieces) |-> parse_f32(trim(pieces[i]))])

parse_fit_message_offset_record(s) ==
    IF s = <<>> THEN Some(0) ELSE parse_i16(s)

parse_fit_message_bits(s) ==
    IF s = <<>> THEN Some(<<>>)
    ELSE LET pieces == split(s, ",")
         IN  Collected([i \in 1..Len(pieces) |-> parse_u8(trim(pieces[i]))])

parse_fit_message_accumulate(input) ==
    IF input = <<>> THEN Some(<<>>)
    ELSE LET pieces == split(input, ",")
         IN  Collected([i \in 1..Len(pieces) |-> parse_u8(trim(pieces[i]))])

parse_comma_delimited_string_list(input) ==
    IF input = <<>> THEN <<>> ELSE split(input, ",")

\* a plausible slip: the scale of a field without components not checked
validate_components_with_scale_lenient(components, scale, default_scale_used) ==
    Len(components) = Len(scale) \/ default_scale_used \/ components = <<>>

\* the assertions of the validate_ functions
validate_components_with_scale(components, scale, default_scale_used) ==
    \/ Len(components) = Len(scale)
    \/ default_scale_used
    \/ (components = <<>> /\ Len(scale) = 1)

validate_components_with_bits(components, bits) ==
    Len(components) = Len(bits) \/ (components = <<>> /\ Len(bits) = 1)

validate_components_with_accumulate(components, accumulate) ==
    Len(components) = Len(accumulate) \/ accumulate = <<>>

validate_ref_field_names_and_values(ref_field_names, ref_field_values) ==
    Len(ref_field_names) = Len(ref_field_values)

FitRefField(name, value) == [name |-> name, value |-> value]

FitMessage(name, comment, fields) ==
    [name |-> name, comment |-> comment, fields |-> fields]

\* Some(s).filter(|s| !s.is_empty())
NonEmpty(s) == IF s = <<>> THEN None ELSE Some(s)

\* a plausible slip: first_message kept from the load before, if there was
\* one
first_message_kept ==
    IF msLocals = None THEN TRUE ELSE msLocals[1].first_message

\* let mut first_message = true;
first_message_init == TRUE

\* the locals of read_messages before the loop
read_messages_start ==
    [fit_messages |-> <<>>,
     first_message |-> first_message_init,
     curr_message |-> FitMessage(<<>>, None, <<>>),
     curr_category |-> <<>>]

\* a plausible slip: the category of a field taken from its own field_type
\* column
field_category_of_row(curr_category, rec) == rec.field_type

\* category: curr_category.clone()
field_category(curr_category, rec) == curr_category

\* the else branch of the loop of read_messages for a record with a
\* definition number: the field, or the panic (None) of a parser, a
\* validation or an unwrap
read_messages_field(l, rec, definition_number) ==
    LET array == parse_fit_message_array(rec.array)
        components == parse_comma_delimited_string_list(rec.components)
        scale == parse_fit_message_scale_record(rec.scale)
        default_scale_used == rec.scale = <<>>
        offset == parse_fit_message_offset_record(rec.offset)
        units == parse_comma_delimited_string_list(rec.units)
        bits == parse_fit_message_bits(rec.bits)
        accumulate == parse_fit_message_accumulate(rec.accumulate)
        ref_field_names == parse_comma_delimited_string_list(rec.ref_field_name)
        ref_field_values == parse_comma_delimited_string_list(rec.ref_field_value)
        example == IF rec.example = <<>> THEN Some(None)
                   ELSE IF parse_u8(rec.example) = None THEN None
                   ELSE Some(parse_u8(rec.example))
    IN  IF array = None \/ scale = None \/ offset = None
           \/ bits = None \/ accumulate = None THEN None
        ELSE IF ~validate_components_with_scale(components, scale[1],
                                                default_scale_used) THEN None
        ELSE IF ~validate_components_with_bits(components, bits[1]) THEN None
        ELSE IF ~validate_components_with_accumulate(components, accumulate[1])
            THEN None
        ELSE IF ~validate_ref_field_names_and_values(ref_field_names,
                                                     ref_field_values) THEN None
        ELSE IF example = None THEN None
        ELSE Some([category |-> field_category(l.curr_category, rec),
                   definition_number |-> definition_number,
                   name |-> rec.field_name,
                   field_type |-> rec.field_type,
                   array |-> array[1],
                   components |-> components,
                   scale |-> scale[1],
                   offset |-> offset[1],
                   units |-> units,
                   bits |-> bits[1],
                   accumulate |-> accumulate[1],
                   ref_fields |->
                       [i \in 1..Len(ref_field_names) |->
                           FitRefField(ref_field_names[i], ref_field_values[i])],
                   comment |-> NonEmpty(rec.comment),
                   example |-> example[1]])

\* one iteration of the loop of read_messages
read_messages_row(l0, rec) ==
    LET l == IF rec.message_name = <<>> /\ rec.definition_number = <<>>
                  /\ rec.field_name = <<>> /\ rec.field_type # <<>>
               THEN [l0 EXCEPT !.curr_category = rec.field_type]
               ELSE l0
    IN  IF rec.message_name # <<>>
            THEN LET pushed ==
                         IF l.first_message
                             THEN [l EXCEPT
                                      !.fit_messages = Append(@, l.curr_message),
                                      !.first_message = FALSE]
                             ELSE l
                 IN  Step("ok",
                          [pushed EXCEPT
                              !.fit_messages = Append(@, pushed.curr_message),
                              !.curr_message =
                                  FitMessage(rec.message_name,
                                             NonEmpty(rec.comment), <<>>)])
        ELSE IF rec.definition_number = <<>> THEN Step("ok", l)
        ELSE LET definition_number == parse_u8(rec.definition_number)
             IN  IF definition_number = None THEN Step("err", l)
                 ELSE LET fit_msg_field ==
                              read_messages_field(l, rec, definition_number[1])
                      IN  IF fit_msg_field = None THEN Step("panic", l)
                          ELSE Step("ok",
                                    [l EXCEPT !.curr_message.fields =
                                        Append(@, fit_msg_field[1])])

\* fit_messages.push(curr_message); Ok(fit_messages)
read_messages_end(l) == Append(l.fit_messages, l.curr_message)

-----------------------------------------------------------------------------
(* Idle values of the components: a specification of one component leaves *)
(* the others at these values.                                             *)

CrcIdle ==
    /\ crcA = <<>> /\ crcB = <<>>
    /\ crcWhole = None /\ crcPrefix = None /\ crcChained = None

HdrIdle == fit_data = <<>> /\ hdrPc = "idle" /\ hdrOut = None

RecIdle == recByte = 0 /\ recHeader = None /\ recType = None

BtIdle == btNumber = 0 /\ btOut = None

DefIdle ==
    /\ defData = <<>> /\ defHeader = None /\ defStart = 0 /\ defOut = None

MainIdle ==
    /\ fit_content = <<>> /\ mainPc = "idle"
    /\ mainHeader = None /\ mainCrc = None

LdIdle ==
    /\ typeRows = <<>> /\ msgRows = <<>>
    /\ ldPc = "idle" /\ ldRun = 0 /\ ldIdx = 0
    /\ tyLocals = None /\ msLocals = None
    /\ tyOut = <<>> /\ msOut = <<>> /\ emitted = <<>>

ArrIdle == arrIn = <<>> /\ arrOut = None

ResIdle == resA = <<>> /\ resOut = None

EqIdle == eqCall = None /\ eqOut = None

\* the components added after main are not in use
RestIdle == LdIdle /\ ArrIdle /\ ResIdle /\ EqIdle

-----------------------------------------------------------------------------
(* The CRC engine driven by a caller: the checksum of A || B in one call,  *)
(* and the running checksum, first over A, then over B seeded with it.     *)

\* byte values fed to the CRC engine
CrcByteVals == {0, 14, 163}

SeqsUpTo(S, n) == UNION {[1..k -> S] : k \in 0..n}

CrcInit ==
    /\ crcA \in SeqsUpTo(CrcByteVals, MaxCrcLen)
    /\ crcB \in SeqsUpTo(CrcByteVals, MaxCrcLen)
    /\ crcWhole = None /\ crcPrefix = None /\ crcChained = None
    /\ HdrIdle /\ RecIdle
    /\ BtIdle /\ DefIdle /\ MainIdle
    /\ RestIdle

\* fit_crc(A || B, 0)
CrcOfWhole ==
    /\ crcWhole = None
    /\ crcWhole' = Some(fit_crc(crcA \o crcB, 0))
    /\ UNCHANGED <<crcA, crcB, crcPrefix, crcChained, hdrVars, recVars,
                 btVars, defVars, mainVars,
                 ldVars, arrVars, resVars, eqVars>>

\* fit_crc(A, 0)
CrcOfPrefix ==
    /\ crcPrefix = None
    /\ crcPrefix' = Some(fit_crc(crcA, 0))
    /\ UNCHANGED <<crcA, crcB, crcWhole, crcChained, hdrVars, recVars,
                 btVars, defVars, mainVars,
                 ldVars, arrVars, resVars, eqVars>>

\* fit_crc(B, seed) with the checksum of the prefix as the seed
CrcOfSuffix ==
    /\ crcPrefix # None
    /\ crcChained = None
    /\ crcChained' = Some(fit_crc(crcB, crcPrefix[1]))
    /\ UNCHANGED <<crcA, crcB, crcWhole, crcPrefix, hdrVars, recVars,
                 btVars, defVars, mainVars,
                 ldVars, arrVars, resVars, eqVars>>

CrcNext == CrcOfWhole \/ CrcOfPrefix \/ CrcOfSuffix

SpecCrc == CrcInit /\ [][CrcNext]_vars

\* C1: for all byte sequences A and B, fit_crc(A || B, 0) equals
\* fit_crc(B, fit_crc(A, 0)): once both the one-call checksum and the chained
\* checksum have been computed they are the same value.
C1_CrcConcat ==
    (crcWhole # None /\ crcChained # None) => crcWhole[1] = crcChained[1]

\* both computed, with a non-empty prefix whose checksum is not 0 and a
\* non-empty suffix
C1_Witness ==
    /\ crcWhole # None /\ crcChained # None
    /\ Len(crcA) > 0 /\ Len(crcB) > 0
    /\ crcPrefix[1] # 0
    /\ crcWhole[1] = crcChained[1]

-----------------------------------------------------------------------------
(* The header decoder applied to a buffer delivered by the loader.  The    *)
(* buffers are a 12-byte header, the two bytes of a header CRC (right or   *)
(* wrong) and the bytes that follow, cut to every length up to MaxBufLen.  *)

HeaderSizeVals == {0, 11, 12, 13, 14, 15, 16, 255}
ProtocolVals == {3, 16}
ProfileVals == {<<11, 10>>, <<255, 0>>}
\* the most significant byte stays below 128: the model's integers are
\* 32-bit signed
DataSizeVals == {<<13, 12, 11, 10>>, <<255, 255, 0, 127>>}
DotFIT == <<46, 70, 73, 84>>
DataTypeVals ==
    { DotFIT,                \* ".FIT"
      <<65, 66, 67, 68>>,    \* "ABCD"
      <<46, 102, 105, 116>>, \* ".fit"
      <<195, 169, 73, 84>>,  \* well-formed UTF-8 with a two-byte character
      <<46, 70, 73, 255>>,   \* not UTF-8
      <<46, 70, 226, 130>> } \* not UTF-8: a character cut short
CrcKinds == {"good", "bad_lsb", "bad_msb", "swapped"}

CrcBytes(c, kind) ==
    CASE kind = "good"    -> <<c % 256, c \div 256>>
      [] kind = "bad_lsb" -> <<(c + 1) % 256, c \div 256>>
      [] kind = "bad_msb" -> <<c % 256, ((c \div 256) + 1) % 256>>
      [] kind = "swapped" -> <<c \div 256, c % 256>>

\* the bytes after offset 13: A3 A7 A3 A7 ...
TailBytes == [i \in 1..(MaxBufLen - 14) |-> IF i % 2 = 1 THEN 163 ELSE 167]

\* the buffers that start with the 12 bytes first12
BuffersOf(first12) ==
    LET crc == fit_crc(first12, 0)
    IN  { SubSeq(first12 \o CrcBytes(crc, kind) \o TailBytes, 1, n) :
            kind \in CrcKinds, n \in 0..MaxBufLen }

HeaderBuffers ==
    UNION { BuffersOf(<<hs, pv>> \o prof \o ds \o dt) :
              hs \in HeaderSizeVals, pv \in ProtocolVals, prof \in ProfileVals,
              ds \in DataSizeVals, dt \in DataTypeVals }

\* the 16 bytes of the header test of the source
ScenarioBuffer ==
    <<14, 3, 11, 10, 13, 12, 11, 10, 46, 70, 73, 84, 163, 167, 163, 167>>

HdrInit ==
    /\ fit_data \in HeaderBuffers
    /\ hdrPc = "start"
    /\ hdrOut = None
    /\ CrcIdle /\ RecIdle
    /\ BtIdle /\ DefIdle /\ MainIdle
    /\ RestIdle

DecodeHeader ==
    /\ hdrPc = "start"
    /\ hdrOut' = Some(parse_fit_header_from_data(fit_data))
    /\ hdrPc' = "done"
    /\ UNCHANGED <<fit_data, crcVars, recVars,
                 btVars, defVars, mainVars,
                 ldVars, arrVars, resVars, eqVars>>

HdrNext == DecodeHeader

SpecHeader == HdrInit /\ [][HdrNext]_vars

HdrDone == hdrPc = "done"
HdrOk == HdrDone /\ hdrOut[1].outcome = "ok"
HdrPanicked == HdrDone /\ hdrOut[1].outcome = "panic" /\ hdrOut[1].header = None
HdrHeader == hdrOut[1].header[1]
HdrLen == Len(fit_data)
HdrByte(i) == At(fit_data, i)
\* the checksum of bytes 0..12 and the little-endian value of bytes 12..13,
\* written out on the buffer
HdrCrcOfFirst12 == fit_crc(SubSeq(fit_data, 1, 12), 0)
HdrCrcField == HdrByte(12) + 256 * HdrByte(13)

\* C2: every header the decoder returns has header_size = byte 0,
\* protocol_version = byte 1, profile_version = byte 2 + 256 * byte 3,
\* data_size = the little-endian 32-bit value of bytes 4..7 and
\* data_type = bytes 8..11; the 16-byte scenario buffer is accepted and yields
\* {14, 3, 0x0A0B, 0x0A0B0C0D, ".FIT", Some(0xA7A3)}.
C2_HeaderFields ==
    /\ HdrOk =>
         /\ HdrHeader.header_size = HdrByte(0)
         /\ HdrHeader.protocol_version = HdrByte(1)
         /\ HdrHeader.profile_version = HdrByte(2) + 256 * HdrByte(3)
         /\ HdrHeader.data_size =
                HdrByte(4) + 256 * HdrByte(5) + 65536 * HdrByte(6)
                + 16777216 * HdrByte(7)
         /\ HdrHeader.data_type =
                <<HdrByte(8), HdrByte(9), HdrByte(10), HdrByte(11)>>
    /\ (HdrDone /\ fit_data = ScenarioBuffer) =>
         /\ HdrOk
         /\ HdrHeader =
              [header_size |-> 14, protocol_version |-> 3,
               profile_version |-> 2571, data_size |-> 168496141,
               data_type |-> DotFIT, crc |-> Some(42915)]

\* the scenario buffer has been decoded and a header returned
C2_Witness == HdrOk /\ fit_data = ScenarioBuffer

\* C3 (as claimed): for every accepted header the header_crc is present iff
\* header_size >= 14; a buffer declaring header_size 12 or 13 (and holding
\* that many bytes, with data_type ".FIT") is returned with no header_crc and
\* without bytes 12..13 having been read.
C3_CrcPresentIffSize14 ==
    /\ HdrOk => ((HdrHeader.crc # None) <=> (HdrHeader.header_size >= 14))
    /\ (HdrDone /\ HdrLen >= 12 /\ HdrByte(0) \in {12, 13}
          /\ HdrLen >= HdrByte(0) /\ SubSeq(fit_data, 9, 12) = DotFIT) =>
         /\ HdrOk
         /\ HdrHeader.crc = None
         /\ hdrOut[1].reads \cap {12, 13} = {}

\* C4: whenever the decoder returns a header with a header_crc, that value is
\* fit_crc over bytes 0..12 of the buffer with seed 0; a buffer whose header
\* carries a CRC (it declares header_size >= 14 and holds bytes 12..13) and
\* whose bytes 12..13, little-endian, differ from that checksum is rejected:
\* no header is returned.
C4_HeaderCrcChecked ==
    /\ (HdrOk /\ HdrHeader.crc # None) =>
         HdrHeader.crc[1] = HdrCrcOfFirst12
    /\ (HdrDone /\ HdrLen >= 14 /\ HdrByte(0) >= 14
          /\ HdrCrcField # HdrCrcOfFirst12) =>
         HdrPanicked

\* a 14-byte header inside the buffer whose CRC field is wrong was rejected
\* on the comparison of the checksums
C4_Witness ==
    /\ HdrPanicked
    /\ HdrLen >= 14 /\ HdrByte(0) = 14 /\ SubSeq(fit_data, 9, 12) = DotFIT
    /\ HdrCrcField # HdrCrcOfFirst12
    /\ hdrOut[1].panic = "crc mismatch"

\* C5 (as claimed): every buffer whose bytes 8..11 are not ".FIT" is
\* rejected, and every header returned has data_type = ".FIT".
C5_DataTypeIsDotFIT ==
    /\ (HdrDone /\ HdrLen >= 12 /\ SubSeq(fit_data, 9, 12) # DotFIT) =>
         HdrPanicked
    /\ HdrOk => HdrHeader.data_type = DotFIT

\* C6 (as claimed): every buffer whose byte 0 is smaller than 12 or larger
\* than the length of the buffer is rejected, and every header returned has
\* 12 <= header_size <= length of the buffer.
C6_HeaderSizePlausible ==
    /\ (HdrDone /\ HdrLen >= 1 /\ (HdrByte(0) < 12 \/ HdrByte(0) > HdrLen)) =>
         HdrPanicked
    /\ HdrOk => (12 <= HdrHeader.header_size /\ HdrHeader.header_size <= HdrLen)

\* the buffer is shorter than a structural requirement of the header
HdrTruncated ==
    \/ HdrLen < 12
    \/ HdrLen < HdrByte(0)
    \/ (HdrByte(0) >= 13 /\ HdrLen < 14)

\* C7: for every buffer shorter than 12 bytes, and every buffer shorter than
\* the header_size it declares (a declared header_size >= 13 with fewer than
\* 14 bytes included), the decoder ends in an error outcome without a
\* header; and no outcome rests on an offset outside the buffer.
C7_TruncatedRejected ==
    /\ (HdrDone /\ HdrTruncated) => HdrPanicked
    /\ HdrDone => hdrOut[1].reads \subseteq 0..(HdrLen - 1)

\* a buffer of 14 bytes or more that declares a larger header_size, with
\* ".FIT" and the right header CRC, was rejected
C7_Witness ==
    /\ HdrPanicked
    /\ HdrLen >= 14 /\ HdrByte(0) > HdrLen
    /\ SubSeq(fit_data, 9, 12) = DotFIT
    /\ HdrCrcField = HdrCrcOfFirst12

-----------------------------------------------------------------------------
(* The record-header classifier applied to one byte of the record stream,  *)
(* and the kind of record asked of the header it returned.                 *)

RecInit ==
    /\ recByte \in 0..255
    /\ recHeader = None
    /\ recType = None
    /\ CrcIdle /\ HdrIdle
    /\ BtIdle /\ DefIdle /\ MainIdle
    /\ RestIdle

ParseRecordHeader ==
    /\ recHeader = None
    /\ recHeader' = Some(parse_record_header(recByte))
    /\ UNCHANGED <<recByte, recType, crcVars, hdrVars,
                 btVars, defVars, mainVars,
                 ldVars, arrVars, resVars, eqVars>>

GetRecordMessageType ==
    /\ recHeader # None
    /\ recType = None
    /\ recType' = Some(get_record_message_type(recHeader[1]))
    /\ UNCHANGED <<recByte, recHeader, crcVars, hdrVars,
                 btVars, defVars, mainVars,
                 ldVars, arrVars, resVars, eqVars>>

RecNext == ParseRecordHeader \/ GetRecordMessageType

SpecRecordHeader == RecInit /\ [][RecNext]_vars

RecParsed == recHeader # None
RecTyped == recType # None

\* C8: parse_record_header classifies every byte: b >= 0x80 as
\* CompressedTimestamp, 0x40 <= b < 0x80 as Definition and b < 0x40 as Data,
\* and get_record_message_type reports the matching kind.
C8_Classification ==
    /\ RecParsed =>
         recHeader[1].variant =
            IF recByte >= 128 THEN "CompressedTimestamp"
            ELSE IF recByte >= 64 THEN "NormalDefinition"
            ELSE "NormalData"
    /\ RecTyped =>
         recType[1] =
            IF recByte >= 128 THEN "DataCompressedTimestamp"
            ELSE IF recByte >= 64 THEN "Definition"
            ELSE "Data"

\* a byte with bits 7 and 6 both set has been classified and its kind asked
C8_Witness ==
    /\ RecTyped /\ recByte >= 192
    /\ recHeader[1].variant = "CompressedTimestamp"
    /\ recType[1] = "DataCompressedTimestamp"

\* C9 (as claimed): for every byte b with bit 7 set the header has
\* local_message_type = (b >> 5) & 0x03, a value in 0..3, and
\* time_offset = b & 0x1F.
C9_CompressedSlot ==
    (RecParsed /\ recByte >= 128) =>
        /\ recHeader[1].local_message_type = (recByte \div 32) % 4
        /\ recHeader[1].local_message_type \in 0..3
        /\ recHeader[1].time_offset = recByte % 32

\* C10: for every byte b with bit 7 clear the header's local_message_type is
\* b & 0x0F, a slot in 0..15, and a Definition header's
\* contains_extended_definitions is true exactly when bit 5 of b is set.
C10_NormalSlot ==
    (RecParsed /\ recByte < 128) =>
        /\ recHeader[1].local_message_type = recByte % 16
        /\ recHeader[1].local_message_type \in 0..15
        /\ recHeader[1].variant = "NormalDefinition" =>
             (recHeader[1].contains_extended_definitions
                <=> ((recByte \div 32) % 2 = 1))

\* a Definition header with the developer-data bit set and a non-zero slot
C10_Witness ==
    /\ RecParsed /\ recByte < 128
    /\ recHeader[1].variant = "NormalDefinition"
    /\ recHeader[1].contains_extended_definitions
    /\ recHeader[1].local_message_type = 15

-----------------------------------------------------------------------------
(* get_base_type_info applied to every u8 *)

BtInit ==
    /\ btNumber \in 0..255
    /\ btOut = None
    /\ CrcIdle /\ HdrIdle /\ RecIdle /\ DefIdle /\ MainIdle
    /\ RestIdle

GetBaseTypeInfo ==
    /\ btOut = None
    /\ btOut' = Some(get_base_type_info(btNumber))
    /\ UNCHANGED <<btNumber, crcVars, hdrVars, recVars, defVars, mainVars,
                 ldVars, arrVars, resVars, eqVars>>

BtNext == GetBaseTypeInfo

SpecBaseType == BtInit /\ [][BtNext]_vars

\* the published table of base types: code, name, size, endian-sensitivity
\* and invalid pattern (as four 16-bit limbs, most significant first)
PublishedBaseTypes ==
    { [code |-> 0, name |-> "enum", size |-> 1, endian |-> FALSE, invalid |-> <<0, 0, 0, 255>>],
      [code |-> 1, name |-> "sint8", size |-> 1, endian |-> FALSE, invalid |-> <<0, 0, 0, 127>>],
      [code |-> 2, name |-> "uint8", size |-> 1, endian |-> FALSE, invalid |-> <<0, 0, 0, 255>>],
      [code |-> 131, name |-> "sint16", size |-> 2, endian |-> TRUE, invalid |-> <<0, 0, 0, 32767>>],
      [code |-> 132, name |-> "uint16", size |-> 2, endian |-> TRUE, invalid |-> <<0, 0, 0, 65535>>],
      [code |-> 133, name |-> "sint32", size |-> 4, endian |-> TRUE, invalid |-> <<0, 0, 32767, 65535>>],
      [code |-> 134, name |-> "uint32", size |-> 4, endian |-> TRUE, invalid |-> <<0, 0, 65535, 65535>>],
      [code |-> 7, name |-> "string", size |-> 1, endian |-> FALSE, invalid |-> <<0, 0, 0, 0>>],
      [code |-> 136, name |-> "float32", size |-> 4, endian |-> TRUE, invalid |-> <<0, 0, 65535, 65535>>],
      [code |-> 137, name |-> "float64", size |-> 8, endian |-> TRUE, invalid |-> <<65535, 65535, 65535, 65535>>],
      [code |-> 10, name |-> "uint8z", size |-> 1, endian |-> FALSE, invalid |-> <<0, 0, 0, 0>>],
      [code |-> 139, name |-> "uint16z", size |-> 2, endian |-> TRUE, invalid |-> <<0, 0, 0, 0>>],
      [code |-> 140, name |-> "uint32z", size |-> 4, endian |-> TRUE, invalid |-> <<0, 0, 0, 0>>],
      [code |-> 13, name |-> "byte", size |-> 1, endian |-> FALSE, invalid |-> <<0, 0, 0, 255>>],
      [code |-> 142, name |-> "sint64", size |-> 8, endian |-> TRUE, invalid |-> <<32767, 65535, 65535, 65535>>],
      [code |-> 143, name |-> "uint64", size |-> 8, endian |-> TRUE, invalid |-> <<65535, 65535, 65535, 65535>>],
      [code |-> 144, name |-> "uint64z", size |-> 8, endian |-> TRUE, invalid |-> <<0, 0, 0, 0>>] }

PublishedRow(code) == CHOOSE r \in PublishedBaseTypes : r.code = code

BtCalled == btOut # None
BtPanicked == BtCalled /\ btOut[1] = None
BtInfo == btOut[1][1]

\* C17: get_base_type_info is defined for exactly the 17 published codes and
\* for each returns the size, endian-sensitivity and invalid pattern of the
\* published table (with the code and the name of the row); every size is
\* 1, 2, 4 or 8.
C17_BaseTypeTable ==
    /\ Cardinality({r.code : r \in PublishedBaseTypes}) = 17
    /\ BtCalled =>
         /\ ~BtPanicked <=> (\E r \in PublishedBaseTypes : r.code = btNumber)
         /\ ~BtPanicked =>
              /\ BtInfo.base_type_field = btNumber
              /\ BtInfo.type_name = PublishedRow(btNumber).name
              /\ BtInfo.size = PublishedRow(btNumber).size
              /\ BtInfo.endian_ability = PublishedRow(btNumber).endian
              /\ BtInfo.invalid_value = PublishedRow(btNumber).invalid
              /\ BtInfo.size \in {1, 2, 4, 8}

\* the info of 0x84 (uint16) has been returned: size 2, endian-sensitive,
\* invalid 0xFFFF
C17_Witness ==
    /\ BtCalled /\ ~BtPanicked /\ btNumber = 132
    /\ BtInfo.size = 2 /\ BtInfo.endian_ability
    /\ BtInfo.invalid_value = <<0, 0, 0, 65535>>

-----------------------------------------------------------------------------
(* The definition-record decoder applied to a buffer that holds, after     *)
(* defStart bytes, a definition body: reserved byte, architecture,         *)
(* global_message_number, the fields and the developer fields, with up to  *)
(* MaxCut bytes missing at the end.                                        *)

\* most field entries of a body
MaxFields == 2
\* most developer field entries of a body
MaxDevFields == 2
\* largest data_start_offset
MaxDefOffset == 1
\* most bytes cut off the end of the buffer
MaxCut == 2

\* reserved byte, architecture, the two bytes of global_message_number
DefPreambles == {<<0, 1, 10, 11>>, <<255, 0, 10, 11>>, <<7, 2, 10, 11>>}

\* (definition_number, size, base_type_code)
FieldTriples ==
    { <<1, 1, 2>>,     \* uint8
      <<2, 4, 132>>,   \* two uint16
      <<1, 1, 132>>,   \* uint16 of size 1
      <<3, 0, 134>>,   \* uint32 of size 0
      <<1, 8, 9>> }    \* 0x09 is no base type

\* (field_number, size, developer_data_index)
DevTriples == {<<1, 1, 1>>, <<2, 2, 2>>, <<3, 4, 0>>}

ScenarioFields == <<<<1, 1, 2>>, <<2, 4, 132>>>>
ScenarioDevFields == <<<<1, 1, 1>>, <<2, 2, 2>>>>

\* the field lists and developer field lists of the bodies: every field list
\* with no or the scenario's developer fields, and every developer field
\* list after the scenario's fields
DefEntryLists ==
    (SeqsUpTo(FieldTriples, MaxFields) \X {<<>>, ScenarioDevFields})
    \cup ({ScenarioFields} \X SeqsUpTo(DevTriples, MaxDevFields))

RECURSIVE Flatten(_)
Flatten(triples) ==
    IF triples = <<>> THEN <<>> ELSE Head(triples) \o Flatten(Tail(triples))

DefBody(pre, fl, dl) ==
    pre \o <<Len(fl)>> \o Flatten(fl) \o <<Len(dl)>> \o Flatten(dl)

CutEnd(s, k) == SubSeq(s, 1, IF Len(s) >= k THEN Len(s) - k ELSE 0)

\* the two bodies of the tests of the source
ScenarioBody == <<0, 1, 10, 11, 2, 1, 1, 2, 2, 4, 132>>
ScenarioBodyDev ==
    <<0, 1, 10, 11, 2, 1, 1, 2, 2, 4, 132, 2, 1, 1, 1, 2, 2, 2>>

DefInit ==
    /\ defStart \in 0..MaxDefOffset
    /\ \E pre \in DefPreambles, e \in DefEntryLists, k \in 0..MaxCut :
          defData = [i \in 1..defStart |-> 65]
                    \o CutEnd(DefBody(pre, e[1], e[2]), k)
    /\ defHeader \in
          { Some([contains_extended_definitions |-> x, local_message_type |-> 1]) :
              x \in BOOLEAN }
    /\ defOut = None
    /\ CrcIdle /\ HdrIdle /\ RecIdle /\ BtIdle /\ MainIdle
    /\ RestIdle

ParseDefinitionRecord ==
    /\ defOut = None
    /\ defOut' = Some(parse_definition_record(defData, defHeader[1], defStart))
    /\ UNCHANGED <<defData, defHeader, defStart,
                   crcVars, hdrVars, recVars, btVars, mainVars,
                 ldVars, arrVars, resVars, eqVars>>

DefNext == ParseDefinitionRecord

SpecDefinition == DefInit /\ [][DefNext]_vars

DefDone == defOut # None
DefOk == DefDone /\ defOut[1].outcome = "ok"
DefPanicked ==
    /\ DefDone /\ defOut[1].outcome = "panic"
    /\ defOut[1].record = None /\ defOut[1].idx = None
DefRecord == defOut[1].record[1]
DefIdx == defOut[1].idx[1]
DefHasDev == defHeader[1].contains_extended_definitions
\* byte i of the body, and whether the buffer holds it
DefByte(i) == At(defData, defStart + i)
DefHolds(i) == defStart + i < Len(defData)
\* n_fields and n_dev_fields as the body declares them
DefN == DefByte(4)
DefM == DefByte(5 + 3 * DefN)
\* the field entries the body declares that lie inside the buffer
DefDeclared == {i \in 1..DefN : DefHolds(4 + 3 * i)}
DefSizeOf(i) == DefByte(3 + 3 * i)
DefCodeOf(i) == DefByte(4 + 3 * i)
PublishedCodes == {r.code : r \in PublishedBaseTypes}

\* C11: a returned record's architecture is LittleEndian when the second
\* body byte is 0 and BigEndian for every other value, its
\* global_message_number is the next two bytes read in that endianness, and
\* the first (reserved) body byte has no part in either.
C11_ArchitectureAndNumber ==
    DefOk =>
        /\ DefRecord.architecture =
              (IF DefByte(1) = 0 THEN "LittleEndian" ELSE "BigEndian")
        /\ DefRecord.global_message_number =
              (IF DefByte(1) = 0
                 THEN DefByte(2) + 256 * DefByte(3)
                 ELSE 256 * DefByte(2) + DefByte(3))

\* a body with reserved byte 255 and architecture 0, decoded little-endian
C11_Witness ==
    /\ DefOk
    /\ DefByte(0) = 255 /\ DefByte(1) = 0
    /\ DefRecord.architecture = "LittleEndian"
    /\ DefRecord.global_message_number = 10 + 256 * 11

\* C12: the returned cursor is s + 5 + 3n without developer data and
\* s + 5 + 3n + 1 + 3m with it; the two bodies of the tests decode at
\* offset 0 to the cursors 11 and 18.
C12_Cursor ==
    /\ DefOk =>
          DefIdx = (IF DefHasDev
                      THEN defStart + 5 + 3 * DefN + 1 + 3 * DefM
                      ELSE defStart + 5 + 3 * DefN)
    /\ (DefDone /\ defData = ScenarioBody /\ defStart = 0 /\ ~DefHasDev)
          => (DefOk /\ DefIdx = 11)
    /\ (DefDone /\ defData = ScenarioBodyDev /\ defStart = 0 /\ DefHasDev)
          => (DefOk /\ DefIdx = 18)

\* a body with developer data decoded at offset 1
C12_Witness ==
    /\ DefOk /\ DefHasDev /\ defStart = 1
    /\ DefN = 2 /\ DefM = 2
    /\ DefIdx = 19

\* C13: the field list of a returned record is exactly the n_fields triples
\* in wire order; the developer list is exactly the n_dev_fields triples
\* when the header flag is set, and is empty, with nothing read past the
\* fields, when it is clear.
C13_FieldLists ==
    DefOk =>
        /\ Len(DefRecord.field_definitions) = DefN
        /\ \A i \in 1..DefN :
              /\ DefRecord.field_definitions[i].field_definition_number
                    = DefByte(2 + 3 * i)
              /\ DefRecord.field_definitions[i].field_size = DefSizeOf(i)
              /\ DefRecord.field_definitions[i].base_type.base_type_field
                    = DefCodeOf(i)
        /\ IF DefHasDev
             THEN /\ Len(DefRecord.developer_field_definitions) = DefM
                  /\ \A j \in 1..DefM :
                        LET b == 3 + 3 * DefN + 3 * j IN
                        /\ DefRecord.developer_field_definitions[j].field_number
                              = DefByte(b)
                        /\ DefRecord.developer_field_definitions[j].field_size
                              = DefByte(b + 1)
                        /\ DefRecord.developer_field_definitions[j]
                              .developer_data_index = DefByte(b + 2)
             ELSE /\ DefRecord.developer_field_definitions = <<>>
                  /\ DefIdx = defStart + 5 + 3 * DefN

\* two fields and a developer field whose size and index differ
C13_Witness ==
    /\ DefOk /\ DefHasDev
    /\ DefN = 2 /\ DefM >= 1
    /\ \E j \in 1..DefM :
          DefRecord.developer_field_definitions[j] =
              DeveloperFieldDefinition(3, 4, 0)

\* C14: a body declaring a field whose size is no multiple of the size of
\* its base type is rejected, and every field of a returned record has
\* field_size mod base_type.size = 0.
C14_SizeMultiple ==
    /\ DefOk =>
          \A i \in 1..Len(DefRecord.field_definitions) :
              LET f == DefRecord.field_definitions[i] IN
              f.field_size % f.base_type.size = 0
    /\ (DefDone /\ DefHolds(4)
          /\ \E i \in DefDeclared :
                /\ DefCodeOf(i) \in PublishedCodes
                /\ DefSizeOf(i) % PublishedRow(DefCodeOf(i)).size # 0)
          => DefPanicked

\* a body with a uint16 field of size 1, rejected
C14_Witness ==
    /\ DefPanicked /\ DefHolds(4)
    /\ \E i \in DefDeclared : DefCodeOf(i) = 132 /\ DefSizeOf(i) = 1
    /\ defOut[1].panic = "size not multiple of base type size"

\* C15: a body declaring a field whose base type code is none of the 17
\* published codes is rejected.
C15_UnknownBaseType ==
    /\ DefOk =>
          \A i \in 1..Len(DefRecord.field_definitions) :
              DefRecord.field_definitions[i].base_type.base_type_field
                  \in PublishedCodes
    /\ (DefDone /\ DefHolds(4)
          /\ \E i \in DefDeclared : DefCodeOf(i) \notin PublishedCodes)
          => DefPanicked

\* a body whose first field has code 0x09, rejected for it
C15_Witness ==
    /\ DefPanicked /\ DefHolds(7)
    /\ DefN >= 1 /\ DefCodeOf(1) = 9
    /\ defOut[1].panic = "unwrap on Err"

\* C16: every field of every returned record has a positive size, and a
\* body declaring a field of size 0 is rejected.
C16_PositiveSize ==
    /\ DefOk =>
          \A i \in 1..Len(DefRecord.field_definitions) :
              DefRecord.field_definitions[i].field_size > 0
    /\ (DefDone /\ DefHolds(4)
          /\ \E i \in DefDeclared : DefSizeOf(i) = 0)
          => DefPanicked

-----------------------------------------------------------------------------
(* main of src/parser/src/main.rs on the bytes of the input file.  main.rs *)
(* holds its own copies of FitFileHeader::from, fit_crc and fit_crc_vec    *)
(* (lines 551-631), the same statements as those of fit_header.rs with the *)
(* offset constants renamed; the operators above stand for both.           *)

\* most bytes of records between the header and the trailer
MaxRecordBytes == 2

\* record bytes: a data header for slot 0, a definition header for slot 0, a
\* compressed-timestamp header, a data header for slot 1
RecordBytes == {0, 64, 128, 1}

\* a 12-byte header declaring data_size d, and the 14-byte header with its
\* CRC
MainHeader12(d) == <<12, 16, 0, 0, d, 0, 0, 0, 46, 70, 73, 84>>
MainHeader14(d) ==
    LET first12 == <<14, 16, 0, 0, d, 0, 0, 0, 46, 70, 73, 84>>
        crc == fit_crc(first12, 0)
    IN  first12 \o <<crc % 256, crc \div 256>>

\* the files: a header declaring d bytes of records, the records, and two
\* last bytes that hold the CRC of all bytes before them, that CRC with a
\* bit flipped, or the CRC of the first header_size + d bytes (0 when the
\* file holds fewer)
MainFilesOf(head, d) ==
    UNION { LET body == head \o recs
                upToEnd == fit_crc(body, 0)
                upToDeclared ==
                    IF d <= Len(recs)
                        THEN fit_crc(Slice(body, 0, Len(head) + d - 1), 0)
                        ELSE 0
            IN  { body \o <<c % 256, c \div 256>> :
                    c \in {upToEnd, BitXor(upToEnd, 1), upToDeclared} }
          : recs \in SeqsUpTo(RecordBytes, MaxRecordBytes) }

MainFiles ==
    UNION { MainFilesOf(MainHeader12(d), d) \cup MainFilesOf(MainHeader14(d), d)
          : d \in 0..MaxRecordBytes }

MainInit ==
    /\ fit_content \in MainFiles
    /\ mainPc = "start"
    /\ mainHeader = None
    /\ mainCrc = None
    /\ CrcIdle /\ HdrIdle /\ RecIdle /\ BtIdle /\ DefIdle
    /\ RestIdle

\* let header = FitFileHeader::from(&fit_content);
MainParseHeader ==
    /\ mainPc = "start"
    /\ LET out == FitFileHeader_from(fit_content)
       IN  IF out.outcome = "panic"
               THEN mainPc' = "panicked" /\ UNCHANGED mainHeader
               ELSE mainPc' = "header_parsed" /\ mainHeader' = out.header
    /\ UNCHANGED <<fit_content, mainCrc,
                   crcVars, hdrVars, recVars, btVars, defVars,
                 ldVars, arrVars, resVars, eqVars>>

\* the last two bytes read as file_crc, the CRC of the bytes before them
\* calculated, and assert_eq!(file_crc, calculated_file_crc)
MainCheckFileCrc ==
    /\ mainPc = "header_parsed"
    /\ LET data_size == Len(fit_content)
       IN  IF data_size < 2
               THEN mainPc' = "panicked" /\ UNCHANGED mainCrc
               ELSE LET file_crc_slice ==
                            Slice(fit_content, data_size - 2, data_size - 1)
                        file_crc == LittleEndian_read_u16(file_crc_slice)
                        calculated_file_crc ==
                            fit_crc(Slice(fit_content, 0, data_size - 3), 0)
                    IN  /\ mainCrc' = Some([file_crc |-> file_crc,
                                            calculated_file_crc |-> calculated_file_crc])
                        /\ mainPc' = IF file_crc = calculated_file_crc
                                       THEN "crc_checked" ELSE "panicked"
    /\ UNCHANGED <<fit_content, mainHeader,
                   crcVars, hdrVars, recVars, btVars, defVars,
                 ldVars, arrVars, resVars, eqVars>>

\* println!("Header: {:#?}", header); and main returns
MainPrintHeader ==
    /\ mainPc = "crc_checked"
    /\ mainPc' = "done"
    /\ UNCHANGED <<fit_content, mainHeader, mainCrc,
                   crcVars, hdrVars, recVars, btVars, defVars,
                 ldVars, arrVars, resVars, eqVars>>

MainNext == MainParseHeader \/ MainCheckFileCrc \/ MainPrintHeader

SpecMain == MainInit /\ [][MainNext]_vars

\* main has returned / main has panicked
MainAccepted == mainPc = "done"
MainRejected == mainPc = "panicked"
\* the offset at which the header says the records end
MainDeclaredEnd == mainHeader[1].header_size + mainHeader[1].data_size

\* C18: a file is accepted only if the two bytes at offset
\* header_size + data_size, read little-endian, equal fit_crc with seed 0
\* over the bytes [0, header_size + data_size); a mismatch is an error.
C18_FileCrcAtDeclaredEnd ==
    MainAccepted =>
        /\ MainDeclaredEnd + 2 <= Len(fit_content)
        /\ LittleEndian_read_u16(
               Slice(fit_content, MainDeclaredEnd, MainDeclaredEnd + 1))
             = fit_crc(Slice(fit_content, 0, MainDeclaredEnd - 1), 0)

\* the first record of the file is a data or compressed-timestamp record:
\* no definition record precedes it
MainFirstRecordUndefined ==
    /\ mainHeader # None
    /\ mainHeader[1].data_size >= 1
    /\ MainDeclaredEnd + 2 = Len(fit_content)
    /\ get_record_message_type(
           parse_record_header(At(fit_content, mainHeader[1].header_size)))
         \in {"Data", "DataCompressedTimestamp"}

\* C20: a data or compressed-timestamp record for a slot with no earlier
\* definition record in the file halts the run with an error: a file whose
\* first record is one is never accepted.
C20_UnknownSlotHalts == MainFirstRecordUndefined => ~MainAccepted

-----------------------------------------------------------------------------
(* The CRC engine applied to a byte sequence A and then to A followed by   *)
(* its own checksum, low byte first, as a writer of the format lays out a  *)
(* header or a file.                                                       *)

\* longest byte sequence A
MaxResLen == 3

ResByteVals == {0, 14, 163, 255}

\* the first 12 bytes of 14-byte headers
ResHeaders ==
    { <<14, 3, 11, 10, 13, 12, 11, 10, 46, 70, 73, 84>>,
      <<14, 16, 0, 0, 0, 0, 0, 0, 46, 70, 73, 84>>,
      <<14, 32, 255, 255, 1, 0, 0, 0, 46, 70, 73, 84>> }

ResInit ==
    /\ resA \in SeqsUpTo(ResByteVals, MaxResLen) \cup ResHeaders
    /\ resOut = None
    /\ CrcIdle /\ HdrIdle /\ RecIdle /\ BtIdle /\ DefIdle /\ MainIdle
    /\ LdIdle /\ ArrIdle /\ EqIdle

\* c = fit_crc(A, 0), then fit_crc over A || lo(c) || hi(c); a 12-byte A is
\* also handed, with c appended, to the header decoder
AppendCrc ==
    /\ resOut = None
    /\ LET c == fit_crc(resA, 0)
           appended == resA \o <<BitAnd(c, 255), Shr(c, 8)>>
       IN  resOut' = Some([c |-> c,
                           appended |-> appended,
                           residue |-> fit_crc(appended, 0),
                           header |-> IF Len(resA) = 12
                                        THEN Some(FitFileHeader_from(appended))
                                        ELSE None])
    /\ UNCHANGED <<resA, crcVars, hdrVars, recVars, btVars, defVars, mainVars,
                   ldVars, arrVars, eqVars>>

ResNext == AppendCrc

SpecResidue == ResInit /\ [][ResNext]_vars

ResDone == resOut # None

\* C28: for every byte sequence A, fit_crc(A || lo(c) || hi(c), 0) = 0 where
\* c = fit_crc(A, 0); so a 14-byte header with its valid CRC, which the
\* header decoder accepts, has checksum 0 over its 14 bytes.
C28_CrcResidueZero ==
    ResDone =>
        /\ resOut[1].residue = 0
        /\ resOut[1].header # None =>
              /\ resOut[1].header[1].outcome = "ok"
              /\ resOut[1].header[1].header[1].crc = Some(resOut[1].c)
              /\ fit_crc(Slice(resOut[1].appended, 0, CRC_MSB), 0) = 0

\* the header of the test of the source: checksum 0xA7A3, residue 0
C28_Witness ==
    /\ ResDone
    /\ resA = <<14, 3, 11, 10, 13, 12, 11, 10, 46, 70, 73, 84>>
    /\ resOut[1].c = 42915
    /\ resOut[1].appended = SubSeq(ScenarioBuffer, 1, 14)
    /\ resOut[1].residue = 0

\* C29: a returned cursor c satisfies s + 5 <= c <= length of the buffer,
\* and a body that is shorter than its five leading bytes, or whose declared
\* field count or (with the header flag set) developer field count needs
\* bytes beyond the buffer, ends in an error outcome.
C29_CursorWithinBuffer ==
    /\ DefOk => (defStart + 5 <= DefIdx /\ DefIdx <= Len(defData))
    /\ (DefDone /\ ~DefHolds(4)) => DefPanicked
    /\ (DefDone /\ DefHolds(4)
          /\ defStart + 5 + 3 * DefN > Len(defData)) => DefPanicked
    /\ (DefDone /\ DefHasDev /\ DefHolds(4) /\ DefHolds(5 + 3 * DefN)
          /\ defStart + 5 + 3 * DefN + 1 + 3 * DefM > Len(defData))
          => DefPanicked

\* a body whose second developer field lacks its last byte, rejected
C29_Witness ==
    /\ DefPanicked /\ DefHasDev
    /\ DefHolds(4) /\ DefHolds(5 + 3 * DefN) /\ DefM = 2
    /\ Len(defData) = defStart + 5 + 3 * DefN + 1 + 3 * DefM - 1
    /\ defOut[1].panic = "index out of bounds"

-----------------------------------------------------------------------------
(* The module versions (fit_header.rs, fit_records.rs) and the copies of   *)
(* main.rs called with the same arguments.                                 *)

\* seeds handed to fit_crc
EqSeeds == {0, 1, 42915, 65535}

NoHeader == [contains_extended_definitions |-> FALSE, local_message_type |-> 0]

EqCall(fn, data, header, arg) ==
    [fn |-> fn, data |-> data, header |-> header, arg |-> arg]

EqInit ==
    /\ \/ \E b \in HeaderBuffers :
             eqCall = Some(EqCall("FitFileHeader::from", b, NoHeader, 0))
       \/ \E b \in 0..255 :
             eqCall = Some(EqCall("parse_record_header", <<>>, NoHeader, b))
       \/ \E start \in 0..MaxDefOffset, x \in BOOLEAN :
          \E pre \in DefPreambles, e \in DefEntryLists, k \in 0..MaxCut :
             eqCall = Some(EqCall("parse_definition_record",
                                  [i \in 1..start |-> 65]
                                      \o CutEnd(DefBody(pre, e[1], e[2]), k),
                                  [contains_extended_definitions |-> x,
                                   local_message_type |-> 1],
                                  start))
       \/ \E d \in SeqsUpTo(CrcByteVals, MaxCrcLen), seed \in EqSeeds :
             eqCall = Some(EqCall("fit_crc", d, NoHeader, seed))
    /\ eqOut = None
    /\ CrcIdle /\ HdrIdle /\ RecIdle /\ BtIdle /\ DefIdle /\ MainIdle
    /\ LdIdle /\ ArrIdle /\ ResIdle

\* what the module version returns
EqModule(c) ==
    CASE c.fn = "FitFileHeader::from" -> FitFileHeader_from(c.data)
      [] c.fn = "parse_record_header" -> parse_record_header(c.arg)
      [] c.fn = "parse_definition_record" ->
            parse_definition_record(c.data, c.header, c.arg)
      [] c.fn = "fit_crc" ->
            [crc |-> fit_crc(c.data, c.arg), vec |-> fit_crc_vec(c.data, c.arg)]

\* what the copy of main.rs returns
EqCopy(c) ==
    CASE c.fn = "FitFileHeader::from" -> main_FitFileHeader_from(c.data)
      [] c.fn = "parse_record_header" -> main_parse_record_header(c.arg)
      [] c.fn = "parse_definition_record" ->
            main_parse_definition_record(c.data, c.header, c.arg)
      [] c.fn = "fit_crc" ->
            [crc |-> main_fit_crc(c.data, c.arg),
             vec |-> main_fit_crc_vec(c.data, c.arg)]

CallBoth ==
    /\ eqOut = None
    /\ eqOut' = Some([module |-> EqModule(eqCall[1]), copy |-> EqCopy(eqCall[1])])
    /\ UNCHANGED <<eqCall, crcVars, hdrVars, recVars, btVars, defVars, mainVars,
                   ldVars, arrVars, resVars>>

EqNext == CallBoth

SpecCopies == EqInit /\ [][EqNext]_vars

EqDone == eqOut # None
EqFn == eqCall[1].fn
\* the variant of fit_records.rs that a variant of main.rs stands for
ModuleVariant ==
    [CompressedTimestampHeader |-> "CompressedTimestamp",
     NormalDefinitionHeader |-> "NormalDefinition",
     NormalDataHeader |-> "NormalData"]

\* C30: called with the same arguments, FitFileHeader::from,
\* parse_record_header (up to the names of the variants),
\* parse_definition_record and fit_crc of main.rs return what the module
\* versions return, the error outcomes included, and fit_crc_vec returns
\* what fit_crc returns.
C30_CopiesAgree ==
    EqDone =>
        LET m == eqOut[1].module
            c == eqOut[1].copy
        IN  CASE EqFn = "parse_record_header" ->
                    m = [c EXCEPT !.variant = ModuleVariant[c.variant]]
              [] EqFn = "fit_crc" ->
                    c.crc = m.crc /\ m.vec = m.crc /\ c.vec = c.crc
              [] OTHER -> c = m

\* both decoders have returned the record and the cursor 18 for the body with
\* developer fields
C30_Witness ==
    /\ EqDone /\ EqFn = "parse_definition_record"
    /\ eqCall[1].data = ScenarioBodyDev /\ eqCall[1].arg = 0
    /\ eqOut[1].copy.outcome = "ok"
    /\ eqOut[1].copy.idx = Some(18)
    /\ eqOut[1].module = eqOut[1].copy

-----------------------------------------------------------------------------
(* parse_fit_message_array applied to a cell of the array column *)

\* longest cell of the array column
MaxArrayLen == 4

ArrayChars == {"[", "]", "N", "n", "0", "3", " ", "+"}

ArrInit ==
    /\ arrIn \in SeqsUpTo(ArrayChars, MaxArrayLen)
    /\ arrOut = None
    /\ CrcIdle /\ HdrIdle /\ RecIdle /\ BtIdle /\ DefIdle /\ MainIdle
    /\ LdIdle /\ ResIdle /\ EqIdle

ParseFitMessageArray ==
    /\ arrOut = None
    /\ arrOut' = Some(parse_fit_message_array(arrIn))
    /\ UNCHANGED <<arrIn, crcVars, hdrVars, recVars, btVars, defVars, mainVars,
                   ldVars, resVars, eqVars>>

ArrNext == ParseFitMessageArray

SpecArray == ArrInit /\ [][ArrNext]_vars

ArrDone == arrOut # None
ArrRejected == ArrDone /\ arrOut[1] = None
\* the value of the cell: the cell without the blanks around it
ArrValue == trim(arrIn)
\* the value is [k] for a decimal integer k >= 1
ArrIsFixed ==
    /\ Len(ArrValue) >= 3
    /\ ArrValue[1] = "[" /\ ArrValue[Len(ArrValue)] = "]"
    /\ \A i \in 2..(Len(ArrValue) - 1) : DigitValue(ArrValue[i], 10) >= 0
    /\ DigitsValue(SubSeq(ArrValue, 2, Len(ArrValue) - 1), 10, 0) >= 1
ArrFixedSize == DigitsValue(SubSeq(ArrValue, 2, Len(ArrValue) - 1), 10, 0)

\* C24: an empty value yields not-array, [N] in either case variable, [k]
\* with an integer k >= 1 fixed(k), every other value is rejected, and no
\* result is fixed(0).
C24_ArrayColumn ==
    ArrDone =>
        /\ arrOut[1] =
              (IF ArrValue = <<>> THEN Some(NotArray)
               ELSE IF ArrValue \in {<<"[", "N", "]">>, <<"[", "n", "]">>}
                   THEN Some(VariableSizeArray)
               ELSE IF ArrIsFixed THEN Some(FixedSizeArray(ArrFixedSize))
               ELSE None)
        /\ arrOut[1] # Some(FixedSizeArray(0))

-----------------------------------------------------------------------------
(* main of parser/build.rs, run twice on the same two catalogs: it loads   *)
(* the type catalog, then the message catalog, then emits every type.      *)
(* Each record of a catalog is one step of the loader's loop.              *)

\* longest type catalog, in records
MaxTypeRows == 3
\* longest message catalog, in records
MaxMsgRows == 3

TypeRow(type_name, base_type, value_name, value, comment) ==
    [type_name |-> type_name, base_type |-> base_type,
     value_name |-> value_name, value |-> value, comment |-> comment]

Uint16 == <<"u", "i", "n", "t", "1", "6">>

\* records of the type catalog: two type starts, and values in decimal, in
\* hexadecimal with either prefix, deprecated, and not a number
TypeRowKinds ==
    {TypeRow(<<"t">>, Enum, <<>>, <<>>, <<>>),
     TypeRow(<<"u">>, Uint16, <<>>, <<>>, <<>>),
     TypeRow(<<>>, <<>>, <<"a">>, <<"7">>, <<>>),
     TypeRow(<<>>, <<>>, <<"b">>, <<"0", "x", "1", "F">>, <<"c">>),
     TypeRow(<<>>, <<>>, <<"c">>, <<"0", "X", "1", "0">>, <<>>),
     TypeRow(<<>>, <<>>, <<"d">>, <<"3">>,
             <<"D", "e", "p", "r", "e", "c", "a", "t", "e", "d">>),
     TypeRow(<<>>, <<>>, <<"e">>, <<"1", "z">>, <<>>)}

TypeCatalogs == SeqsUpTo(TypeRowKinds, MaxTypeRows)

EmptyRow ==
    [message_name |-> <<>>, definition_number |-> <<>>, field_name |-> <<>>,
     field_type |-> <<>>, array |-> <<>>, components |-> <<>>,
     scale |-> <<>>, offset |-> <<>>, units |-> <<>>, bits |-> <<>>,
     accumulate |-> <<>>, ref_field_name |-> <<>>, ref_field_value |-> <<>>,
     comment |-> <<>>, products |-> <<>>, example |-> <<>>]

Uint8 == <<"u", "i", "n", "t", "8">>

FieldRow(definition_number, field_name) ==
    [EmptyRow EXCEPT !.definition_number = definition_number,
                     !.field_name = field_name,
                     !.field_type = Uint8]

\* records that shape the message list: two message starts, two category
\* records, a field, a sub-field without a definition number, a record with
\* both a message name and a definition number, and a definition number
\* that is no u8
MsgRowKinds ==
    {[EmptyRow EXCEPT !.message_name = <<"m">>],
     [EmptyRow EXCEPT !.message_name = <<"n">>, !.comment = <<"c">>],
     [EmptyRow EXCEPT !.field_type = <<"k">>],
     [EmptyRow EXCEPT !.field_type = <<"l">>],
     FieldRow(<<"1">>, <<"f">>),
     FieldRow(<<>>, <<"s">>),
     [FieldRow(<<"3">>, <<"h">>) EXCEPT !.message_name = <<"p">>],
     FieldRow(<<"2", "5", "6">>, <<"x">>)}

TwoNames == <<"a", ",", "b">>

\* field records for the parsers and the validations of a field
FieldRowKinds ==
    {[FieldRow(<<"4">>, <<"v">>) EXCEPT
         !.array = <<"[", "N", "]">>, !.components = TwoNames,
         !.scale = <<"2", ",", " ", "0", ".", "5">>, !.offset = <<"-", "5">>,
         !.units = <<"m">>, !.bits = <<"8", ",", "8">>,
         !.accumulate = <<"1", ",", "1">>,
         !.ref_field_name = <<"x", ",", "y">>,
         !.ref_field_value = <<"1", ",", "2">>,
         !.comment = <<"c">>, !.example = <<"9">>],
     [FieldRow(<<"5">>, <<"d">>) EXCEPT
         !.components = TwoNames, !.bits = <<"8", ",", "8">>],
     [FieldRow(<<"6">>, <<"o">>) EXCEPT
         !.scale = <<"1", "0", "0">>, !.bits = <<"8">>],
     [FieldRow(<<"7">>, <<"w">>) EXCEPT !.scale = <<"2", ",", "4">>],
     [FieldRow(<<"8">>, <<"p">>) EXCEPT
         !.components = TwoNames, !.scale = <<"2">>,
         !.bits = <<"8", ",", "8">>],
     [FieldRow(<<"9">>, <<"q">>) EXCEPT
         !.components = TwoNames, !.bits = <<"8">>],
     [FieldRow(<<"1", "0">>, <<"r">>) EXCEPT !.bits = <<"8", ",", "8">>],
     [FieldRow(<<"1", "1">>, <<"t">>) EXCEPT
         !.components = TwoNames, !.bits = <<"8", ",", "8">>,
         !.accumulate = <<"1">>],
     [FieldRow(<<"1", "2">>, <<"u">>) EXCEPT !.ref_field_name = <<"x">>],
     [FieldRow(<<"1", "3">>, <<"y">>) EXCEPT !.scale = <<"1", ".", "2", ".", "3">>],
     [FieldRow(<<"1", "4">>, <<"z">>) EXCEPT !.array = <<"[", "0", "]">>]}

MsgCatalogs ==
    SeqsUpTo(MsgRowKinds, MaxMsgRows)
        \cup {<<[EmptyRow EXCEPT !.message_name = <<"m">>], r>> :
                 r \in FieldRowKinds}

\* the pairs of catalogs that main is run on
ProfileCatalogs ==
    (TypeCatalogs \X {<<>>}) \cup ({<<>>} \X MsgCatalogs)
        \cup {<<<<TypeRow(<<"u">>, Uint16, <<>>, <<>>, <<>>),
                  TypeRow(<<>>, <<>>, <<"b">>, <<"0", "x", "1", "F">>, <<"c">>)>>,
                <<[EmptyRow EXCEPT !.message_name = <<"m">>],
                  [EmptyRow EXCEPT !.field_type = <<"k">>],
                  FieldRow(<<"1">>, <<"f">>)>>>>}

\* what a loader returns
LoadOk(value) == [ok |-> TRUE, value |-> value]
LoadErr == [ok |-> FALSE]

PrInit ==
    /\ \E c \in ProfileCatalogs : typeRows = c[1] /\ msgRows = c[2]
    /\ ldPc = "main" /\ ldRun = 1 /\ ldIdx = 0
    /\ tyLocals = None /\ msLocals = None
    /\ tyOut = <<>> /\ msOut = <<>> /\ emitted = <<>>
    /\ CrcIdle /\ HdrIdle /\ RecIdle /\ BtIdle /\ DefIdle /\ MainIdle
    /\ ArrIdle /\ ResIdle /\ EqIdle

PrOthers == <<crcVars, hdrVars, recVars, btVars, defVars, mainVars, arrVars, resVars, eqVars>>

\* main calls read_profile_types, which sets up its locals
ReadProfileTypesStart ==
    /\ ldPc = "main"
    /\ tyLocals' = Some(read_profile_types_start)
    /\ ldIdx' = 1
    /\ ldPc' = "read_profile_types"
    /\ emitted' = <<>>
    /\ UNCHANGED <<typeRows, msgRows, ldRun, msLocals, tyOut, msOut, PrOthers>>

\* one record of the type catalog; an Err returns from main
ReadProfileTypesRow ==
    /\ ldPc = "read_profile_types"
    /\ ldIdx <= Len(typeRows)
    /\ LET step == read_profile_types_row(tyLocals[1], typeRows[ldIdx])
       IN  IF step.outcome = "ok"
               THEN /\ tyLocals' = Some(step.locals)
                    /\ ldIdx' = ldIdx + 1
                    /\ UNCHANGED <<ldPc, tyOut>>
               ELSE /\ tyOut' = Append(tyOut, LoadErr)
                    /\ ldPc' = "returned"
                    /\ UNCHANGED <<tyLocals, ldIdx>>
    /\ UNCHANGED <<typeRows, msgRows, ldRun, msLocals, msOut, emitted, PrOthers>>

\* the end of the type catalog
ReadProfileTypesEnd ==
    /\ ldPc = "read_profile_types"
    /\ ldIdx > Len(typeRows)
    /\ tyOut' = Append(tyOut, LoadOk(read_profile_types_end(tyLocals[1])))
    /\ ldPc' = "types_read"
    /\ UNCHANGED <<typeRows, msgRows, ldRun, ldIdx, tyLocals, msLocals, msOut, emitted, PrOthers>>

\* main calls read_messages, which sets up its locals
ReadMessagesStart ==
    /\ ldPc = "types_read"
    /\ msLocals' = Some(read_messages_start)
    /\ ldIdx' = 1
    /\ ldPc' = "read_messages"
    /\ UNCHANGED <<typeRows, msgRows, ldRun, tyLocals, tyOut, msOut, emitted, PrOthers>>

\* one record of the message catalog; an Err returns from main, a panic
\* ends the process
ReadMessagesRow ==
    /\ ldPc = "read_messages"
    /\ ldIdx <= Len(msgRows)
    /\ LET step == read_messages_row(msLocals[1], msgRows[ldIdx])
       IN  CASE step.outcome = "ok" ->
                    /\ msLocals' = Some(step.locals)
                    /\ ldIdx' = ldIdx + 1
                    /\ UNCHANGED <<ldPc, msOut>>
             [] step.outcome = "err" ->
                    /\ msOut' = Append(msOut, LoadErr)
                    /\ ldPc' = "returned"
                    /\ UNCHANGED <<msLocals, ldIdx>>
             [] step.outcome = "panic" ->
                    /\ ldPc' = "panicked"
                    /\ UNCHANGED <<msLocals, ldIdx, msOut>>
    /\ UNCHANGED <<typeRows, msgRows, ldRun, tyLocals, tyOut, emitted, PrOthers>>

\* the end of the message catalog; main goes on to the loop over the types
ReadMessagesEnd ==
    /\ ldPc = "read_messages"
    /\ ldIdx > Len(msgRows)
    /\ msOut' = Append(msOut, LoadOk(read_messages_end(msLocals[1])))
    /\ ldPc' = "emit"
    /\ ldIdx' = 1
    /\ UNCHANGED <<typeRows, msgRows, ldRun, tyLocals, msLocals, tyOut, emitted, PrOthers>>

\* the types that read_profile_types returned to this run of main
LoadedTypes == tyOut[Len(tyOut)].value

\* one iteration of the loop over the types
EmitType ==
    /\ ldPc = "emit"
    /\ ldIdx <= Len(LoadedTypes)
    /\ LET str == emit_type(LoadedTypes[ldIdx])
       IN  IF str = None
               THEN ldPc' = "panicked" /\ UNCHANGED <<ldIdx, emitted>>
               ELSE /\ emitted' = emitted \o str[1]
                    /\ ldIdx' = ldIdx + 1
                    /\ UNCHANGED ldPc
    /\ UNCHANGED <<typeRows, msgRows, ldRun, tyLocals, msLocals, tyOut, msOut, PrOthers>>

\* after the loop main writes the artifact and returns
MainReturn ==
    /\ ldPc = "emit"
    /\ ldIdx > Len(LoadedTypes)
    /\ ldPc' = "returned"
    /\ UNCHANGED <<typeRows, msgRows, ldRun, ldIdx, tyLocals, msLocals, tyOut, msOut, emitted, PrOthers>>

\* the build is run a second time on the same catalogs
MainAgain ==
    /\ ldPc \in {"returned", "panicked"}
    /\ ldRun = 1
    /\ ldRun' = 2
    /\ ldPc' = "main"
    /\ UNCHANGED <<typeRows, msgRows, ldIdx, tyLocals, msLocals, tyOut, msOut, emitted, PrOthers>>

PrNext ==
    \/ ReadProfileTypesStart
    \/ ReadProfileTypesRow
    \/ ReadProfileTypesEnd
    \/ ReadMessagesStart
    \/ ReadMessagesRow
    \/ ReadMessagesEnd
    \/ EmitType
    \/ MainReturn
    \/ MainAgain

SpecProfile == PrInit /\ [][PrNext]_vars

\* the value a load returned, for the loads that returned Ok
TypesLoaded == {tyOut[r].value : r \in {x \in 1..Len(tyOut) : tyOut[x].ok}}
MessagesLoaded == {msOut[r].value : r \in {x \in 1..Len(msOut) : msOut[x].ok}}

IsMessageStart(rec) == rec.message_name # <<>>
MessageStarts == SelectSeq(msgRows, IsMessageStart)

\* C21: read_messages flushes each message exactly once: the list it
\* returns is the messages of the message-start records, in their order,
\* with no entry twice and no nameless placeholder.
C21_EachMessageOnce ==
    \A messages \in MessagesLoaded :
        [j \in 1..Len(messages) |-> messages[j].name]
            = [j \in 1..Len(MessageStarts) |-> MessageStarts[j].message_name]

TypeStarts == {i \in 1..Len(typeRows) : typeRows[i].type_name # <<>>}
NthTypeStart(j) ==
    CHOOSE i \in TypeStarts : Cardinality({x \in TypeStarts : x <= i}) = j
\* the record after the values of the j-th type
TypeEnd(j) ==
    IF j = Cardinality(TypeStarts) THEN Len(typeRows) + 1
    ELSE NthTypeStart(j + 1)
\* the number a value cell denotes: hexadecimal after 0x or 0X, else decimal
ValueDenoted(cell) ==
    LET v == trim(cell)
    IN  IF Len(v) >= 2 /\ v[1] = "0" /\ v[2] \in {"x", "X"}
            THEN DigitsValue(SubSeq(v, 3, Len(v)), 16, 0)
            ELSE DigitsValue(v, 10, 0)
TypeOfStart(j) ==
    LET i == NthTypeStart(j)
    IN  FitType(typeRows[i].type_name, typeRows[i].base_type,
                [x \in 1..(TypeEnd(j) - i - 1) |->
                    FitTypeValue(typeRows[i + x].value_name,
                                 ValueDenoted(typeRows[i + x].value),
                                 typeRows[i + x].comment)])

\* C22: read_profile_types returns one type for each record with a type
\* name, in catalog order, each with exactly the values of the records that
\* follow it up to the next type start, the value read as decimal or, after
\* 0x or 0X, as hexadecimal.
C22_OneTypePerTypeStart ==
    \A types \in TypesLoaded :
        types = [j \in 1..Cardinality(TypeStarts) |-> TypeOfStart(j)]

\* the comment begins with "deprecated", in whatever case
BeginsDeprecated(comment) ==
    /\ Len(comment) >= Len(Deprecated)
    /\ \A i \in 1..Len(Deprecated) : ToLowerChar(comment[i]) = Deprecated[i]
DeprecatedRows ==
    {i \in 1..Len(typeRows) :
        typeRows[i].type_name = <<>> /\ BeginsDeprecated(typeRows[i].comment)}
\* the line is the member that the value record gives a type
IsMemberOf(line, rec) ==
    /\ line.line \in {"variant", "const"}
    /\ line.name.of = rec.value_name
    /\ line.comment = rec.comment

\* C23: a value record whose comment begins with "deprecated" gives no
\* member to the emitted artifact, of an enum or of a group of constants,
\* and the types that the loader returned still hold it.
C23_DeprecatedNotEmitted ==
    \A i \in DeprecatedRows :
        /\ \A k \in 1..Len(emitted) : ~IsMemberOf(emitted[k], typeRows[i])
        /\ \A types \in TypesLoaded :
               \E t \in 1..Len(types) : \E v \in 1..Len(types[t].values) :
                   /\ types[t].values[v].value_name = typeRows[i].value_name
                   /\ types[t].values[v].comment = typeRows[i].comment

\* the number of entries of a comma-delimited cell
Items(cell) ==
    IF cell = <<>> THEN 0
    ELSE 1 + Cardinality({i \in 1..Len(cell) : cell[i] = ","})

IsFieldRow(rec) == rec.message_name = <<>> /\ rec.definition_number # <<>>

\* the records that the running read_messages has gone through
RowsTaken == IF ldPc = "read_messages" THEN 1..(ldIdx - 1) ELSE {}

\* the fields that the running read_messages has placed in a message
PlacedFields ==
    IF ldPc # "read_messages" THEN {}
    ELSE LET l == msLocals[1]
             messages == Append(l.fit_messages, l.curr_message)
         IN  UNION {{messages[m].fields[k] : k \in 1..Len(messages[m].fields)} :
                       m \in 1..Len(messages)}

\* the record that a placed field was read from
RowOf(field) ==
    msgRows[CHOOSE i \in RowsTaken :
                IsFieldRow(msgRows[i]) /\ msgRows[i].field_name = field.name]

\* the relations of bits, accumulate and reference fields, on the cells of
\* a record and on the lists of the field read from it
OtherRelations(rec) ==
    /\ \/ Items(rec.components) = Items(rec.bits)
       \/ (rec.components = <<>> /\ Items(rec.bits) <= 1)
    /\ Items(rec.components) = Items(rec.accumulate) \/ rec.accumulate = <<>>
    /\ Items(rec.ref_field_name) = Items(rec.ref_field_value)
OtherRelationsOfField(field) ==
    /\ \/ Len(field.components) = Len(field.bits)
       \/ (field.components = <<>> /\ Len(field.bits) <= 1)
    /\ Len(field.components) = Len(field.accumulate) \/ field.accumulate = <<>>
    /\ Len(field.ref_fields) = Items(RowOf(field).ref_field_name)
    /\ Len(field.ref_fields) = Items(RowOf(field).ref_field_value)

\* C25 as stated: every field that read_messages places in the model
\* satisfies the four length relations, the one of the scale being
\* len(components) = len(scale) or an empty scale column, and a field
\* record that violates one of them is rejected.
C25_LengthRelations ==
    /\ \A i \in RowsTaken :
           IsFieldRow(msgRows[i]) =>
               /\ \/ Items(msgRows[i].components) = Items(msgRows[i].scale)
                  \/ msgRows[i].scale = <<>>
               /\ OtherRelations(msgRows[i])
    /\ \A field \in PlacedFields :
           /\ \/ Len(field.components) = Len(field.scale)
              \/ RowOf(field).scale = <<>>
           /\ OtherRelationsOfField(field)

\* C25 amended: the same, the relation of the scale being
\* len(components) = len(scale), or an empty scale column, or no components
\* and a single scale.
C25_LengthRelationsAmended ==
    /\ \A i \in RowsTaken :
           IsFieldRow(msgRows[i]) =>
               /\ \/ Items(msgRows[i].components) = Items(msgRows[i].scale)
                  \/ msgRows[i].scale = <<>>
                  \/ (msgRows[i].components = <<>> /\ Items(msgRows[i].scale) = 1)
               /\ OtherRelations(msgRows[i])
    /\ \A field \in PlacedFields :
           /\ \/ Len(field.components) = Len(field.scale)
              \/ RowOf(field).scale = <<>>
              \/ (field.components = <<>> /\ Len(field.scale) = 1)
           /\ OtherRelationsOfField(field)

\* a field with components and as many scales, bits, accumulates and
\* reference fields has been placed
C25_Witness ==
    \E field \in PlacedFields :
        /\ Len(field.components) = 2 /\ Len(field.scale) = 2
        /\ RowOf(field).scale # <<>>
        /\ Len(field.bits) = 2 /\ Len(field.accumulate) = 2
        /\ Len(field.ref_fields) = 2

\* main has run twice to its end
BothRunsOver == ldRun = 2 /\ ldPc \in {"returned", "panicked"}

Sorted(S) ==
    [n \in 1..Cardinality(S) |->
        CHOOSE i \in S : Cardinality({x \in S : x <= i}) = n]

IsCategoryRow(rec) ==
    /\ rec.message_name = <<>> /\ rec.definition_number = <<>>
    /\ rec.field_name = <<>> /\ rec.field_type # <<>>

\* the category set by the most recent category record before record i
CategoryAt(i) ==
    LET C == {x \in 1..(i - 1) : IsCategoryRow(msgRows[x])}
    IN  IF C = {} THEN <<>>
        ELSE msgRows[CHOOSE x \in C : \A y \in C : y <= x].field_type

\* the message starts that the running read_messages has gone through
StartsTaken == Sorted({i \in RowsTaken : IsMessageStart(msgRows[i])})
\* the record after the records of the j-th message
SpanEnd(j) == IF j = Len(StartsTaken) THEN ldIdx ELSE StartsTaken[j + 1]
\* the messages of the running read_messages, and the one of the j-th start
MessagesSoFar == Append(msLocals[1].fit_messages, msLocals[1].curr_message)
MessageOfStart(j) ==
    MessagesSoFar[Len(MessagesSoFar) - Len(StartsTaken) + j]

NameAndCategory(fields) ==
    [n \in 1..Len(fields) |->
        [name |-> fields[n].name, category |-> fields[n].category]]
\* name and category that the records of S give, in catalog order
Appended(S) ==
    [n \in 1..Cardinality(S) |->
        [name |-> msgRows[Sorted(S)[n]].field_name,
         category |-> CategoryAt(Sorted(S)[n])]]

\* C27 as stated: a record in which only field_type is non-empty sets the
\* current category and adds no field; a record with an empty definition
\* number adds no field; every record with a definition number is appended,
\* in catalog order, to the message of the most recent message start, with
\* the category of the most recent category record.
C27_FieldRows ==
    ldPc = "read_messages" =>
        /\ msLocals[1].curr_category = CategoryAt(ldIdx)
        /\ \A j \in 1..Len(StartsTaken) :
               NameAndCategory(MessageOfStart(j).fields)
                   = Appended({i \in StartsTaken[j]..(SpanEnd(j) - 1) :
                                  msgRows[i].definition_number # <<>>})

\* C27 amended: the same for the records with a definition number and no
\* message name, in a load that has not failed; the ones before the first
\* message start are appended to the nameless initial message.
C27_FieldRowsAmended ==
    ldPc = "read_messages" =>
        /\ msLocals[1].curr_category = CategoryAt(ldIdx)
        /\ \A j \in 1..Len(StartsTaken) :
               NameAndCategory(MessageOfStart(j).fields)
                   = Appended({i \in StartsTaken[j]..(SpanEnd(j) - 1) :
                                  IsFieldRow(msgRows[i])})
        /\ NameAndCategory(MessagesSoFar[1].fields)
               = Appended({i \in RowsTaken :
                              /\ IsFieldRow(msgRows[i])
                              /\ \A j \in 1..Len(StartsTaken) : i < StartsTaken[j]})

\* after a message start and a category record a field is in the message,
\* with the category
C27_Witness ==
    /\ ldPc = "read_messages"
    /\ \E f \in PlacedFields : f.category # <<>>
    /\ msLocals[1].curr_message.name # <<>>
    /\ msLocals[1].curr_message.fields # <<>>

=============================================================================
